---- MODULE Spec2Model ----
(***************************************************************************)
(* State-machine model of the streaming correlation engine of the DPS      *)
(* meter: NameRegistry, PartyRegistry, SessionMeter and the pipeline       *)
(* orchestrator (stream_snapshots).                                        *)
(*                                                                         *)
(* Time: timestamps are integers counting ticks of 0.05 s, so that every   *)
(* time constant of the source is a whole number (0.15 s = 3 ticks,        *)
(* 0.25 s = 5, 0.75 s = 15, 2 s = 40, 15 s = 300, 20 s = 400, 60 s = 1200, *)
(* 120 s = 2400).                                                          *)
(* Scores: self-candidate scores are counted in halves (0.5 = 1, 1.0 = 2). *)
(***************************************************************************)
EXTENDS Integers, Sequences, FiniteSets, TLC

VARIABLES
    names,      \* the NameRegistry
    party,      \* the PartyRegistry
    meter,      \* the SessionMeter
    pipe,       \* stream_snapshots' locals and its position in the loop body
    trace       \* what the last step did (observation only, never read by the model)

vars == <<names, party, meter, pipe, trace>>

----------------------------------------------------------------------------
(* Python values *)

\* None for an optional timestamp
NoTs == -1
\* None for an optional entity id
NoId == -1
\* None for an optional name (the registries reject empty names)
NoName == ""
\* None for an optional zone key
NoZone == <<>>

\* dict helpers
EmptyDict == <<>>
Put(d, k, v) == [x \in (DOMAIN d) \cup {k} |-> IF x = k THEN v ELSE d[x]]
Get(d, k, dflt) == IF k \in DOMAIN d THEN d[k] ELSE dflt
Drop(d, ks) == [x \in (DOMAIN d) \ ks |-> d[x]]

Max(S) == CHOOSE x \in S : \A y \in S : y <= x
Range(f) == {f[x] : x \in DOMAIN f}

\* `a or b` on optional timestamps: None and 0.0 are both falsy
OrTs(a, b) == IF a = NoTs \/ a = 0 THEN b ELSE a

\* deque(maxlen=500).append
DEQUE_MAXLEN == 500
DequeAppend(q, x) == IF Len(q) >= DEQUE_MAXLEN THEN Append(Tail(q), x) ELSE Append(q, x)

----------------------------------------------------------------------------
(* Packets.  A RawPacket is [timestamp, src_ip, src_port, dst_ip, dst_port, *)
(* payload_len]; the payload itself is carried as the decoded messages.     *)

PORT_LOGIN == 5055
PORT_ZONE_A == 5056
PORT_ZONE_B == 5058
PORT_CLIENT == 40000
SERVER_PORTS == {PORT_LOGIN, PORT_ZONE_A, PORT_ZONE_B}
ZONE_PORTS == {PORT_ZONE_A, PORT_ZONE_B}

infer_zone_key(pkt) ==
    IF pkt.src_port \in ZONE_PORTS THEN <<pkt.src_ip, pkt.src_port>>
    ELSE IF pkt.dst_port \in ZONE_PORTS THEN <<pkt.dst_ip, pkt.dst_port>>
    ELSE NoZone

Fingerprint(pkt) ==
    <<pkt.timestamp, pkt.src_ip, pkt.src_port, pkt.dst_ip, pkt.dst_port, pkt.payload_len>>

----------------------------------------------------------------------------
(* NameRegistry *)

NamesInit ==
    [names |-> EmptyDict, guid_names |-> EmptyDict, id_guids |-> EmptyDict,
     strong_name_ids |-> EmptyDict, weak_name_ids |-> EmptyDict,
     strong_id_names |-> EmptyDict]

\* a lookup that tries the guid indirection before the direct map
Names_lookup_GuidFirst(n, entity_id) ==
    IF entity_id \in DOMAIN n.id_guids /\ Get(n.guid_names, n.id_guids[entity_id], NoName) # NoName
    THEN n.guid_names[n.id_guids[entity_id]]
    ELSE Get(n.names, entity_id, NoName)

Names_lookup(n, entity_id) ==
    IF entity_id \in DOMAIN n.names THEN n.names[entity_id]
    ELSE IF entity_id \notin DOMAIN n.id_guids THEN NoName
    ELSE Get(n.guid_names, n.id_guids[entity_id], NoName)

Names_snapshot(n) ==
    LET viaGuid == {e \in DOMAIN n.id_guids :
                       /\ e \notin DOMAIN n.names
                       /\ Get(n.guid_names, n.id_guids[e], NoName) # NoName}
    IN [e \in (DOMAIN n.names) \cup viaGuid |->
           IF e \in DOMAIN n.names THEN n.names[e] ELSE n.guid_names[n.id_guids[e]]]

\* _store(entity_id: int, name: str, weak=True)
\* a weak store that never looks at the strong bindings
Names_store_weak_Always(n, entity_id, name) ==
    [n EXCEPT !.weak_name_ids = Put(@, name, Get(@, name, {}) \cup {entity_id}),
              !.names = Put(@, entity_id, name)]

Names_store_weak(n, entity_id, name) ==
    LET strong_name == Get(n.strong_id_names, entity_id, NoName)
        strong_ids == Get(n.strong_name_ids, name, {})
    IN IF strong_name # NoName /\ strong_name # name THEN n
       ELSE IF strong_ids # {} /\ entity_id \notin strong_ids THEN n
       ELSE [n EXCEPT !.weak_name_ids = Put(@, name, Get(@, name, {}) \cup {entity_id}),
                      !.names = Put(@, entity_id, name)]

\* _store(entity_id: int, name: str) (strong)
Names_store_strong(n, entity_id, name) ==
    LET strong_ids == Get(n.strong_name_ids, name, {}) \cup {entity_id}
        weak_ids == Get(n.weak_name_ids, name, {})
        popped == {w \in weak_ids : w \notin strong_ids /\ Get(n.names, w, NoName) = name}
        n1 == [n EXCEPT !.strong_name_ids = Put(@, name, strong_ids),
                        !.strong_id_names = Put(@, entity_id, name)]
        n2 == IF weak_ids # {}
              THEN [n1 EXCEPT !.names = Drop(@, popped),
                              !.weak_name_ids = Put(@, name, weak_ids \cap strong_ids)]
              ELSE n1
    IN [n2 EXCEPT !.names = Put(@, entity_id, name)]

Names_store(n, entity_id, name, weak) ==
    IF name = NoName THEN n
    ELSE IF weak THEN Names_store_weak(n, entity_id, name)
    ELSE Names_store_strong(n, entity_id, name)

Names_record(n, entity_id, name) == Names_store(n, entity_id, name, FALSE)
Names_record_weak(n, entity_id, name) == Names_store(n, entity_id, name, TRUE)

\* _store(entity_id: int, guid) and _apply_guid_link
Names_store_id_guid(n, entity_id, guid) ==
    [n EXCEPT !.id_guids = Put(@, entity_id, guid)]

\* _store(guid, name: str) and _apply_party_roster
Names_store_guid_name(n, guid, name) ==
    IF name = NoName THEN n ELSE [n EXCEPT !.guid_names = Put(@, guid, name)]

----------------------------------------------------------------------------
(* Decoded messages.  A PhotonMessage is carried decoded: event_code (NoCode *)
(* for an operation request/response), the request's opcode, the event's    *)
(* subtype (parameter 252) and the parameters the registries read: an id,   *)
(* a second id, a list of names, a guid, two flags, and the CombatEvents    *)
(* the event mapper makes of the message.                                   *)

NoCode == -1
NoGuid == ""
PARTY_EVENT_CODE == 1
TARGET_REQUEST_OPCODE == 1
COMBAT_TARGET_SUBTYPE == 21
PARTY_SUBTYPE_NAME_KEYS == {227, 229}
PARTY_SUBTYPE_ID_KEYS == {209, 210}
SELF_SUBTYPE_NAME_KEYS == {228, 238}
NAME_SUBTYPE_UNIT_INFO == 29
NAME_SUBTYPE_ID_NAME == 275
COMBAT_STATE_SUBTYPE_VALUES == {257, 274}

Msg(event_code, code, subtype, id, id2, name_list, guid, active, passive, combat) ==
    [event_code |-> event_code, code |-> code, subtype |-> subtype, id |-> id,
     id2 |-> id2, name_list |-> name_list, guid |-> guid, active |-> active,
     passive |-> passive, combat |-> combat]

CombatEvent(ts, source_id, target_id, kind, amount) ==
    [timestamp |-> ts, source_id |-> source_id, target_id |-> target_id,
     kind |-> kind, amount |-> amount]

\* NameRegistry.observe / _apply_event
Names_apply_event(n, m) ==
    LET n1 == \* _apply_party_roster: parallel guid and name lists
              IF m.subtype \in PARTY_SUBTYPE_NAME_KEYS /\ m.guid # NoGuid /\ m.name_list # <<>>
              THEN Names_store_guid_name(n, m.guid, m.name_list[1]) ELSE n
        n2 == \* _apply_guid_link: parameter 3 a guid and parameter 1 an int
              IF m.subtype \notin PARTY_SUBTYPE_NAME_KEYS /\ m.guid # NoGuid /\ m.id2 # NoId
              THEN Names_store_id_guid(n1, m.id2, m.guid) ELSE n1
        n3 == IF m.subtype = NAME_SUBTYPE_UNIT_INFO /\ m.id # NoId /\ m.name_list # <<>>
              THEN Names_store(n2, m.id, m.name_list[1], FALSE) ELSE n2
        n4 == IF m.subtype = NAME_SUBTYPE_ID_NAME /\ m.id # NoId /\ m.name_list # <<>>
              THEN Names_store(n3, m.id, m.name_list[1], TRUE) ELSE n3
    IN n4

Names_observe(n, m) ==
    IF m.event_code = NoCode \/ m.event_code # PARTY_EVENT_CODE THEN n
    ELSE Names_apply_event(n, m)

----------------------------------------------------------------------------
(* PartyRegistry *)

TARGET_SELF_NAME_MIN_COUNT == 5
TARGET_SELF_NAME_MIN_RATIO == 2
TARGET_SELF_NAME_WINDOW_SECONDS == 1200
TARGET_SELF_NAME_CONFIRM_COUNT == 20
SELF_ID_CANDIDATE_TTL_SECONDS == 300
SELF_ID_CORRELATION_WINDOW_SECONDS == 15
SELF_ID_MIN_SCORE == 2
SELF_ID_MIN_SCORE_GAP == 2
TARGET_LINK_WINDOW_SECONDS == 40
TARGET_LINK_REORDER_SECONDS == 3
WEIGHT_LINK == 1
WEIGHT_COMBAT == 2

PartyInit(strict) ==
    [strict |-> strict, party_names |-> {}, party_ids |-> {},
     resolved_party_names |-> {}, party_roster_candidates |-> {},
     party_roster_self_seen |-> FALSE, combat_ids_seen |-> {}, target_ids |-> {},
     self_ids |-> {}, primary_self_id |-> NoId, self_name |-> NoName,
     self_name_confirmed |-> FALSE, recent_target_ids |-> <<>>,
     recent_outbound_ts |-> <<>>, target_request_ts |-> EmptyDict,
     self_candidate_scores |-> EmptyDict, self_candidate_last_ts |-> EmptyDict,
     self_candidate_link_hits |-> EmptyDict, self_candidate_combat_hits |-> EmptyDict,
     recent_target_links |-> <<>>, last_packet_fingerprint |-> <<>>,
     zone_key |-> NoZone]

\* _prune_deque, _prune_deque_pairs, _prune_deque_triples: pop stale heads
RECURSIVE prune_deque(_, _, _)
prune_deque(values, now, window_seconds) ==
    IF values # <<>> /\ Head(values) < now - window_seconds
    THEN prune_deque(Tail(values), now, window_seconds) ELSE values

RECURSIVE prune_deque_tuples(_, _, _)
prune_deque_tuples(values, now, window_seconds) ==
    IF values # <<>> /\ Head(values)[1] < now - window_seconds
    THEN prune_deque_tuples(Tail(values), now, window_seconds) ELSE values

\* the latest outbound timestamp not after the event decides
has_outbound_correlation(outbound_ts, event_ts) ==
    LET notAfter == {i \in DOMAIN outbound_ts : outbound_ts[i] <= event_ts}
    IN /\ notAfter # {}
       /\ event_ts - outbound_ts[Max(notAfter)] <= SELF_ID_CORRELATION_WINDOW_SECONDS

Party_has_ids(p) == IF p.strict THEN p.self_ids # {} ELSE p.party_ids # {}

Party_has_unresolved_names(p) ==
    IF p.party_names = {} THEN FALSE
    ELSE (p.party_names \ p.resolved_party_names) # {}

\* a promotion that waits for no self id
Party_promote_roster_candidates_Eager(p) ==
    [p EXCEPT !.party_ids = @ \cup p.party_roster_candidates]

Party_promote_roster_candidates(p) ==
    IF p.party_roster_candidates = {} THEN p
    ELSE LET seen == \/ p.party_roster_self_seen
                     \/ (p.self_ids # {} /\ (p.party_roster_candidates \cap p.self_ids) # {})
         IN IF ~seen THEN p
            ELSE [p EXCEPT !.party_roster_self_seen = TRUE,
                           !.party_ids = @ \cup p.party_roster_candidates]

\* variant: the accepted id joins self_ids only
Party_accept_self_id_candidate_NoParty(p, candidate_id) ==
    IF p.primary_self_id = NoId \/ candidate_id = p.primary_self_id
    THEN Party_promote_roster_candidates(
             [p EXCEPT !.primary_self_id = candidate_id,
                       !.self_ids = @ \cup {candidate_id},
                       !.party_roster_self_seen =
                           @ \/ candidate_id \in p.party_roster_candidates])
    ELSE p

Party_accept_self_id_candidate(p, candidate_id) ==
    IF p.primary_self_id = NoId \/ candidate_id = p.primary_self_id
    THEN Party_promote_roster_candidates(
             [p EXCEPT !.primary_self_id = candidate_id,
                       !.self_ids = @ \cup {candidate_id},
                       !.party_ids = @ \cup {candidate_id},
                       !.party_roster_self_seen =
                           @ \/ candidate_id \in p.party_roster_candidates])
    ELSE p

Party_add_self_candidate_score(p, candidate_id, ts, weight) ==
    [p EXCEPT !.self_candidate_scores = Put(@, candidate_id, Get(@, candidate_id, 0) + weight),
              !.self_candidate_last_ts = Put(@, candidate_id, ts)]

\* now = NoTs stands for now=None: the newest candidate timestamp is taken
Party_prune_candidate_scores(p, now) ==
    IF now = NoTs /\ DOMAIN p.self_candidate_last_ts = {} THEN p
    ELSE LET t == IF now = NoTs THEN Max(Range(p.self_candidate_last_ts)) ELSE now
             cutoff == t - SELF_ID_CANDIDATE_TTL_SECONDS
             stale == {e \in DOMAIN p.self_candidate_last_ts :
                          p.self_candidate_last_ts[e] < cutoff}
         IN [p EXCEPT !.self_candidate_last_ts = Drop(@, stale),
                      !.self_candidate_scores = Drop(@, stale),
                      !.self_candidate_link_hits = Drop(@, stale),
                      !.self_candidate_combat_hits = Drop(@, stale)]

\* variant: a new zone key is remembered without the reset
Party_update_zone_key_NoReset(p, pkt) ==
    LET zone_key == infer_zone_key(pkt)
    IN IF zone_key = NoZone THEN p ELSE [p EXCEPT !.zone_key = zone_key]

Party_update_zone_key(p, pkt) ==
    LET zone_key == infer_zone_key(pkt)
    IN IF zone_key = NoZone THEN p
       ELSE IF p.zone_key = NoZone THEN [p EXCEPT !.zone_key = zone_key]
       ELSE IF zone_key # p.zone_key
       THEN [p EXCEPT !.zone_key = zone_key,
                      !.target_ids = {},
                      !.recent_target_ids = <<>>,
                      !.recent_outbound_ts = <<>>,
                      !.target_request_ts = EmptyDict,
                      !.self_candidate_scores = EmptyDict,
                      !.self_candidate_last_ts = EmptyDict,
                      !.self_candidate_link_hits = EmptyDict,
                      !.self_candidate_combat_hits = EmptyDict,
                      !.party_ids = @ \ p.self_ids,
                      !.self_ids = {},
                      !.primary_self_id = NoId,
                      !.party_roster_candidates = {},
                      !.party_roster_self_seen = FALSE,
                      !.combat_ids_seen = {}]
       ELSE p

Party_observe_packet(p, pkt) ==
    LET p1 == Party_update_zone_key([p EXCEPT !.last_packet_fingerprint = Fingerprint(pkt)], pkt)
        p2 == IF pkt.dst_port \in ZONE_PORTS /\ pkt.src_port \notin SERVER_PORTS
              THEN [p1 EXCEPT !.recent_outbound_ts = DequeAppend(@, pkt.timestamp)]
              ELSE p1
        p3 == [p2 EXCEPT
                 !.recent_outbound_ts =
                     prune_deque(@, pkt.timestamp, SELF_ID_CANDIDATE_TTL_SECONDS),
                 !.recent_target_ids =
                     prune_deque_tuples(@, pkt.timestamp, TARGET_SELF_NAME_WINDOW_SECONDS),
                 !.recent_target_links =
                     prune_deque_tuples(@, pkt.timestamp, TARGET_LINK_WINDOW_SECONDS)]
        p4 == Party_prune_candidate_scores(p3, pkt.timestamp)
        cutoff == pkt.timestamp - SELF_ID_CANDIDATE_TTL_SECONDS
    IN [p4 EXCEPT !.target_request_ts = Drop(@, {t \in DOMAIN @ : @[t] < cutoff})]

Party_observe_packet_once(p, pkt) ==
    IF Fingerprint(pkt) = p.last_packet_fingerprint THEN p
    ELSE Party_observe_packet(p, pkt)

Party_observe_combat_event(p, event) ==
    IF p.primary_self_id # NoId THEN p
    ELSE IF event.target_id \notin DOMAIN p.target_request_ts THEN p
    ELSE IF ~has_outbound_correlation(p.recent_outbound_ts, event.timestamp) THEN p
    ELSE [Party_add_self_candidate_score(p, event.source_id, event.timestamp, WEIGHT_COMBAT)
             EXCEPT !.self_candidate_combat_hits =
                        Put(@, event.source_id, Get(@, event.source_id, 0) + 1)]

\* mutant of Party_resolve_choice: the score rule forgets the combat-hit test
Party_resolve_choice_NoCombatTest(p, n) ==
    LET scores == p.self_candidate_scores
        matches == {e \in DOMAIN scores : Names_lookup(n, e) = p.self_name}
        best_score == Max(Range(scores))
        best_id == CHOOSE e \in DOMAIN scores : scores[e] = best_score
        others == {scores[e] : e \in (DOMAIN scores) \ {best_id}}
        second_score == IF others = {} THEN 0 ELSE Max(others)
    IN IF p.self_name_confirmed /\ p.self_name # NoName /\ Cardinality(matches) = 1
       THEN LET m == CHOOSE e \in matches : TRUE
            IN IF Get(p.self_candidate_link_hits, m, 0) > 0
                  /\ Get(p.self_candidate_combat_hits, m, 0) > 0
               THEN m ELSE NoId
       ELSE IF best_score >= SELF_ID_MIN_SCORE
               /\ best_score - second_score >= SELF_ID_MIN_SCORE_GAP
       THEN best_id ELSE NoId

\* the candidate a call of try_resolve_self_id accepts on the pruned registry, or NoId
Party_resolve_choice(p, n) ==
    LET scores == p.self_candidate_scores
        matches == {e \in DOMAIN scores : Names_lookup(n, e) = p.self_name}
        best_score == Max(Range(scores))
        best_id == CHOOSE e \in DOMAIN scores : scores[e] = best_score
        others == {scores[e] : e \in (DOMAIN scores) \ {best_id}}
        second_score == IF others = {} THEN 0 ELSE Max(others)
    IN IF p.self_name_confirmed /\ p.self_name # NoName /\ Cardinality(matches) = 1
       THEN LET m == CHOOSE e \in matches : TRUE
            IN IF Get(p.self_candidate_link_hits, m, 0) > 0
                  /\ Get(p.self_candidate_combat_hits, m, 0) > 0
               THEN m ELSE NoId
       ELSE IF best_score >= SELF_ID_MIN_SCORE
               /\ best_score - second_score >= SELF_ID_MIN_SCORE_GAP
               /\ Get(p.self_candidate_combat_hits, best_id, 0) > 0
       THEN best_id ELSE NoId

Party_try_resolve_self_id(p, n) ==
    IF p.primary_self_id # NoId THEN p
    ELSE LET p1 == Party_prune_candidate_scores(p, NoTs)
         IN IF DOMAIN p1.self_candidate_scores = {} THEN p1
            ELSE LET c == Party_resolve_choice(p1, n)
                 IN IF c = NoId THEN p1 ELSE Party_accept_self_id_candidate(p1, c)

Party_seed_names(p, nms) == [p EXCEPT !.party_names = @ \cup (nms \ {NoName})]

Party_seed_ids(p, ids) == [p EXCEPT !.party_ids = @ \cup ids]

\* mutant of Party_seed_self_ids: the seeded id replaces a primary id already held
Party_seed_self_ids_Overwrite(p, ids) ==
    LET S == Range(ids)
    IN Party_promote_roster_candidates(
           [p EXCEPT !.party_ids = @ \cup S,
                     !.self_ids = @ \cup S,
                     !.primary_self_id = IF ids # <<>> THEN ids[1] ELSE @])

\* ids is the iterable as a sequence: the first id becomes primary when none is set
Party_seed_self_ids(p, ids) ==
    LET S == Range(ids)
    IN Party_promote_roster_candidates(
           [p EXCEPT !.party_ids = @ \cup S,
                     !.self_ids = @ \cup S,
                     !.primary_self_id = IF @ = NoId /\ ids # <<>> THEN ids[1] ELSE @])

Party_set_self_name(p, name, confirmed) ==
    IF name = NoName THEN p
    ELSE IF confirmed THEN [p EXCEPT !.self_name = name, !.self_name_confirmed = TRUE]
    ELSE IF p.self_name_confirmed THEN p
    ELSE IF p.self_name = NoName THEN [p EXCEPT !.self_name = name]
    ELSE p

Party_sync_names(p, n) ==
    IF p.party_names = {} THEN p
    ELSE LET snapshot == Names_snapshot(n)
             mapped_ids == {e \in DOMAIN snapshot :
                               /\ snapshot[e] \in p.party_names
                               /\ e > 0
                               /\ (e \in p.combat_ids_seen \/ e \in p.self_ids)}
         IN [p EXCEPT !.party_ids = @ \cup mapped_ids,
                      !.resolved_party_names = @ \cup {snapshot[e] : e \in mapped_ids}]

Party_infer_self_name_from_targets(p, n) ==
    IF p.self_name_confirmed \/ p.recent_target_ids = <<>> THEN p
    ELSE LET q == p.recent_target_ids
             cutoff == q[Len(q)][1] - TARGET_SELF_NAME_WINDOW_SECONDS
             live == {i \in DOMAIN q : q[i][1] >= cutoff
                                       /\ Names_lookup(n, q[i][2]) \notin {NoName, "SYSTEM"}}
             nms == {Names_lookup(n, q[i][2]) : i \in live}
             count(nm) == Cardinality({i \in live : Names_lookup(n, q[i][2]) = nm})
             distinct_ids(nm) == {q[i][2] : i \in {j \in live : Names_lookup(n, q[j][2]) = nm}}
         IN IF nms = {} THEN p
            ELSE LET best_count == Max({count(nm) : nm \in nms})
                     best_name == CHOOSE nm \in nms : count(nm) = best_count
                     rest == {count(nm) : nm \in nms \ {best_name}}
                     second_count == IF rest = {} THEN 0 ELSE Max(rest)
                     confirm == \/ best_count >= TARGET_SELF_NAME_CONFIRM_COUNT
                                \/ Cardinality(distinct_ids(best_name)) >= 2
                 IN IF best_count < TARGET_SELF_NAME_MIN_COUNT THEN p
                    ELSE IF second_count > 0
                            /\ best_count < TARGET_SELF_NAME_MIN_RATIO * second_count THEN p
                    ELSE IF p.self_name # NoName /\ p.self_name # best_name THEN p
                    ELSE Party_set_self_name(p, best_name, confirm)

\* sync_id_names writes into the NameRegistry
RECURSIVE Names_record_weak_all(_, _, _)
Names_record_weak_all(n, ids, name) ==
    IF ids = {} THEN n
    ELSE LET e == CHOOSE x \in ids : TRUE
             current == Names_lookup(n, e)
             n1 == IF current # NoName /\ current # name THEN n
                   ELSE Names_record_weak(n, e, name)
         IN Names_record_weak_all(n1, ids \ {e}, name)

\* a registry that never passes its self name on
Party_sync_id_names_Off(p, n) == n

Party_sync_id_names(p, n) ==
    IF p.self_ids = {} THEN n
    ELSE IF p.self_name = NoName \/ ~p.self_name_confirmed THEN n
    ELSE Names_record_weak_all(n, p.self_ids, p.self_name)

\* mutant of Party_allows: strict mode forgets that a registry without a self id
\* allows nothing
Party_allows_NoSelfGuard(p, n, source_id) ==
    IF p.strict
    THEN source_id \in p.party_ids \/ source_id \in p.self_ids
    ELSE IF p.party_ids # {} THEN source_id \in p.party_ids
    ELSE IF p.party_names = {} THEN TRUE
    ELSE LET name == Names_lookup(n, source_id)
         IN name # NoName /\ name \in p.party_names

\* allows: the answer
Party_allows(p, n, source_id) ==
    IF p.strict
    THEN IF p.self_ids = {} THEN FALSE
         ELSE source_id \in p.party_ids \/ source_id \in p.self_ids
    ELSE IF p.party_ids # {} THEN source_id \in p.party_ids
    ELSE IF p.party_names = {} THEN TRUE
    ELSE LET name == Names_lookup(n, source_id)
         IN name # NoName /\ name \in p.party_names

\* allows: the side effect on the registry
Party_allows_seen(p, source_id) == [p EXCEPT !.combat_ids_seen = @ \cup {source_id}]

Party_apply_target_link_hint(p, first, second, ts) ==
    LET candidate == IF first \in p.target_ids /\ second \notin p.target_ids THEN second
                     ELSE IF second \in p.target_ids /\ first \notin p.target_ids THEN first
                     ELSE NoId
    IN IF candidate = NoId THEN p
       ELSE [Party_add_self_candidate_score(p, candidate, ts, WEIGHT_LINK)
                EXCEPT !.self_candidate_link_hits = Put(@, candidate, Get(@, candidate, 0) + 1)]

\* the reversed walk over _recent_target_links, from index i down
RECURSIVE Party_hints_from_recent_links(_, _, _, _)
Party_hints_from_recent_links(p, target_id, ts, i) ==
    IF i = 0 THEN p
    ELSE LET link == p.recent_target_links[i]
         IN IF ts - link[1] > TARGET_LINK_WINDOW_SECONDS THEN p
            ELSE IF ts - link[1] > TARGET_LINK_REORDER_SECONDS
            THEN Party_hints_from_recent_links(p, target_id, ts, i - 1)
            ELSE IF (link[2] = target_id) # (link[3] = target_id)
            THEN Party_hints_from_recent_links(
                     Party_apply_target_link_hint(p, link[2], link[3], ts), target_id, ts, i - 1)
            ELSE Party_hints_from_recent_links(p, target_id, ts, i - 1)

Party_apply_target_request(p, m, pkt) ==
    IF m.event_code # NoCode THEN p
    ELSE IF pkt.dst_port \notin ZONE_PORTS THEN p
    ELSE IF m.code # TARGET_REQUEST_OPCODE \/ m.id = NoId THEN p
    ELSE LET p1 == [p EXCEPT !.target_ids = @ \cup {m.id},
                             !.recent_target_ids = DequeAppend(@, <<pkt.timestamp, m.id>>),
                             !.target_request_ts = Put(@, m.id, pkt.timestamp)]
         IN Party_hints_from_recent_links(p1, m.id, pkt.timestamp, Len(p1.recent_target_links))

Party_apply_target_link(p, m, pkt) ==
    IF m.id = NoId \/ m.id2 = NoId THEN p
    ELSE LET p1 == [p EXCEPT !.recent_target_links =
                                 DequeAppend(@, <<pkt.timestamp, m.id, m.id2>>)]
         IN IF p1.target_ids = {} THEN p1
            ELSE Party_apply_target_link_hint(p1, m.id, m.id2, pkt.timestamp)

Party_observe(p, m, pkt) ==
    LET p1 == Party_apply_target_request(Party_observe_packet_once(p, pkt), m, pkt)
    IN IF m.event_code = NoCode \/ m.event_code # PARTY_EVENT_CODE THEN p1
       ELSE IF m.subtype = COMBAT_TARGET_SUBTYPE THEN Party_apply_target_link(p1, m, pkt)
       ELSE IF m.subtype \in PARTY_SUBTYPE_ID_KEYS
       THEN IF p1.party_names # {} \/ m.id = NoId THEN p1
            ELSE Party_promote_roster_candidates(
                     [p1 EXCEPT !.party_roster_candidates = @ \cup {m.id},
                                !.party_roster_self_seen = @ \/ m.id \in p1.self_ids])
       ELSE IF m.subtype \notin PARTY_SUBTYPE_NAME_KEYS \cup SELF_SUBTYPE_NAME_KEYS THEN p1
       ELSE IF m.name_list = <<>> THEN p1
       ELSE IF m.subtype \in SELF_SUBTYPE_NAME_KEYS
       THEN Party_set_self_name(p1, m.name_list[1], TRUE)
       ELSE [p1 EXCEPT !.party_names = @ \cup Range(m.name_list),
                       !.resolved_party_names = {},
                       !.party_roster_candidates = {},
                       !.party_roster_self_seen = FALSE,
                       !.party_ids = IF p1.self_ids # {} THEN @ \cap p1.self_ids ELSE {}]

----------------------------------------------------------------------------
(* SessionMeter.  The RollingMeter is carried as its running per-source     *)
(* totals, a list of [key, damage, heal] in order of first push; a summary's *)
(* grouped dict is a list of the same shape keyed by label.  A rate          *)
(* (dps, hps) is the pair <<amount, duration>>.                              *)

BATTLE_TIMEOUT_SECONDS == 400
COMBAT_END_GRACE_SECONDS == 5
Modes == {"battle", "zone", "manual"}

Digits == <<"0", "1", "2", "3", "4", "5", "6", "7", "8", "9">>
\* str(int) of a non-negative int
RECURSIVE str(_)
str(i) == IF i < 10 THEN Digits[i + 1] ELSE str(i \div 10) \o Digits[(i % 10) + 1]

\* f"{zone_key[0]}:{zone_key[1]}"
ZoneLabel(zone_key) == zone_key[1] \o ":" \o str(zone_key[2])

\* deque(maxlen=history_limit).append
\* variant: a plain list, nothing is evicted
DequeAppendMax_Unbounded(q, x, maxlen) == Append(q, x)

DequeAppendMax(q, x, maxlen) ==
    IF Len(q) >= maxlen THEN Append(Tail(q), x) ELSE Append(q, x)

\* ordered dict of (damage, heal) tuples
Keys(g) == {g[k].key : k \in DOMAIN g}
IndexOf(g, key) == CHOOSE k \in DOMAIN g : g[k].key = key
GroupedGet(g, key) ==
    IF key \in Keys(g) THEN <<g[IndexOf(g, key)].damage, g[IndexOf(g, key)].heal>> ELSE <<0, 0>>
GroupedSet(g, key, damage, heal) ==
    LET item == [key |-> key, damage |-> damage, heal |-> heal]
    IN IF key \in Keys(g) THEN [g EXCEPT ![IndexOf(g, key)] = item] ELSE Append(g, item)

RECURSIVE SumOf(_, _)
SumOf(s, field) == IF s = <<>> THEN 0 ELSE s[1][field] + SumOf(Tail(s), field)

\* RollingMeter.push: running totals per source
Rolling_push(totals, event) ==
    LET cur == GroupedGet(totals, event.source_id)
    IN IF event.kind = "damage"
       THEN GroupedSet(totals, event.source_id, cur[1] + event.amount, cur[2])
       ELSE GroupedSet(totals, event.source_id, cur[1], cur[2] + event.amount)

Rate(amount, duration) == IF duration > 0 THEN <<amount, duration>> ELSE <<0, 1>>

\* list.sort(key=damage, reverse=True): stable, larger damage first
RECURSIVE SortByDamage(_)
SortByDamage(s) ==
    IF s = <<>> THEN <<>>
    ELSE LET rest == SortByDamage(SubSeq(s, 1, Len(s) - 1))
             e == s[Len(s)]
             k == Cardinality({j \in DOMAIN rest : rest[j].damage >= e.damage})
         IN SubSeq(rest, 1, k) \o <<e>> \o SubSeq(rest, k + 1, Len(rest))

\* variant: the entries stay in the order of the dict
build_entries_from_grouped_Unsorted(grouped, duration) ==
    [k \in DOMAIN grouped |->
        [label |-> grouped[k].key, damage |-> grouped[k].damage, heal |-> grouped[k].heal,
         dps |-> Rate(grouped[k].damage, duration), hps |-> Rate(grouped[k].heal, duration)]]

build_entries_from_grouped(grouped, duration) ==
    SortByDamage([k \in DOMAIN grouped |->
                     [label |-> grouped[k].key, damage |-> grouped[k].damage,
                      heal |-> grouped[k].heal,
                      dps |-> Rate(grouped[k].damage, duration),
                      hps |-> Rate(grouped[k].heal, duration)]])

\* name_lookup(source_id), or str(source_id) when it gives nothing
LabelOf(n, source_id) ==
    IF Names_lookup(n, source_id) # NoName THEN Names_lookup(n, source_id) ELSE str(source_id)

RECURSIVE GroupByLabel(_, _, _)
GroupByLabel(totals, n, grouped) ==
    IF totals = <<>> THEN grouped
    ELSE LET label == LabelOf(n, totals[1].key)
             cur == GroupedGet(grouped, label)
         IN GroupByLabel(Tail(totals), n,
                         GroupedSet(grouped, label, cur[1] + totals[1].damage,
                                    cur[2] + totals[1].heal))

build_entries(totals, duration, n) ==
    build_entries_from_grouped(GroupByLabel(totals, n, <<>>), duration)

SessionSummary(mode, start_ts, end_ts, duration, label, entries, reason) ==
    [mode |-> mode, start_ts |-> start_ts, end_ts |-> end_ts, duration |-> duration,
     label |-> label, entries |-> entries, total_damage |-> SumOf(entries, "damage"),
     total_heal |-> SumOf(entries, "heal"), reason |-> reason]

MeterInit(mode, history_limit) ==
    [mode |-> mode, history_limit |-> history_limit,
     history |-> [k \in Modes |-> <<>>], totals |-> <<>>,
     session_start |-> NoTs, last_event_ts |-> NoTs, last_seen_ts |-> NoTs,
     active |-> FALSE, manual_active |-> FALSE, zone_key |-> NoZone,
     zone_label |-> NoName, combatants |-> {}, seen_sources |-> {},
     combat_end_ts |-> NoTs, last_combat_event_ts |-> NoTs, saw_combat_state |-> FALSE]

Meter_start_session(m, timestamp) ==
    [m EXCEPT !.totals = <<>>, !.session_start = timestamp, !.last_event_ts = NoTs,
              !.active = TRUE, !.combat_end_ts = NoTs, !.last_combat_event_ts = NoTs,
              !.seen_sources = {}]

\* variant: the summary carries the zone label of the moment it is built
SummaryLabel_Current(m, label_override) == IF m.mode = "zone" THEN m.zone_label ELSE NoName

\* the label of a summary; label_override = NoName stands for label_override=None
SummaryLabel(m, label_override) ==
    IF m.mode = "zone"
    THEN (IF label_override # NoName THEN label_override ELSE m.zone_label)
    ELSE NoName

\* label_override = NoName stands for label_override=None
Meter_end_session(m, n, timestamp, reason, label_override) ==
    IF ~m.active THEN m
    ELSE LET start_ts == OrTs(m.session_start, timestamp)
             duration == IF timestamp - start_ts > 0 THEN timestamp - start_ts ELSE 0
             entries == build_entries(m.totals, duration, n)
             label == SummaryLabel(m, label_override)
             closed == [m EXCEPT !.totals = <<>>, !.session_start = NoTs,
                                 !.last_event_ts = NoTs, !.active = FALSE]
         IN IF entries = <<>> THEN closed
            ELSE [closed EXCEPT
                    !.history[m.mode] =
                        DequeAppendMax(@, SessionSummary(m.mode, start_ts, timestamp, duration,
                                                         label, entries, reason),
                                       m.history_limit),
                    !.combat_end_ts = NoTs, !.combatants = {},
                    !.last_combat_event_ts = NoTs, !.seen_sources = {}]

\* `event.timestamp > ts` for an optional ts
Later(ts, timestamp) == IF ts = NoTs \/ timestamp > ts THEN timestamp ELSE ts

Meter_push(m, event) ==
    IF m.mode = "manual" /\ ~m.manual_active THEN m
    ELSE LET m1 == IF ~m.active THEN Meter_start_session(m, event.timestamp) ELSE m
             qualifies == IF m1.saw_combat_state
                          THEN \/ event.kind = "damage"
                               \/ (event.kind = "heal" /\ event.source_id # event.target_id)
                          ELSE TRUE
         IN [m1 EXCEPT
               !.last_event_ts = Later(@, event.timestamp),
               !.last_seen_ts = Later(@, event.timestamp),
               !.combat_end_ts =
                   IF @ # NoTs /\ event.timestamp - @ > COMBAT_END_GRACE_SECONDS
                   THEN NoTs ELSE @,
               !.seen_sources = @ \cup {event.source_id},
               !.last_combat_event_ts = IF qualifies THEN Later(@, event.timestamp) ELSE @,
               !.totals = Rolling_push(@, event)]

Meter_observe_combat_state(m, entity_id, in_active, in_passive, timestamp) ==
    IF m.mode # "battle" THEN m
    ELSE IF entity_id \notin m.seen_sources THEN m
    ELSE LET m1 == [m EXCEPT !.saw_combat_state = TRUE,
                             !.last_seen_ts = Later(@, timestamp)]
         IN IF in_active \/ in_passive
            THEN LET m2 == [m1 EXCEPT !.combatants = @ \cup {entity_id},
                                      !.combat_end_ts = NoTs]
                 IN IF ~m2.active THEN Meter_start_session(m2, timestamp) ELSE m2
            ELSE LET m2 == [m1 EXCEPT !.combatants = @ \ {entity_id}]
                 IN IF m2.combatants = {} THEN [m2 EXCEPT !.combat_end_ts = timestamp]
                    ELSE m2

\* variant of CombatEndTs: an event after the end of combat does not move the end
CombatEndTs_NoExtend(m) == m.combat_end_ts

\* the end of a battle session that saw combat end: the later of combat_end_ts
\* and the last event
CombatEndTs(m) ==
    IF m.last_event_ts # NoTs /\ m.last_event_ts > m.combat_end_ts
    THEN m.last_event_ts ELSE m.combat_end_ts

Meter_observe_packet(m, n, pkt) ==
    LET zone_key == infer_zone_key(pkt)
        m0 == [m EXCEPT !.last_seen_ts = pkt.timestamp]
        m1 == IF zone_key = NoZone THEN m0
              ELSE IF m0.zone_key = NoZone
              THEN LET z == [m0 EXCEPT !.zone_key = zone_key,
                                       !.zone_label = ZoneLabel(zone_key)]
                   IN IF z.mode = "zone" THEN Meter_start_session(z, pkt.timestamp) ELSE z
              ELSE IF zone_key # m0.zone_key
              THEN LET z == [m0 EXCEPT !.zone_key = zone_key,
                                       !.zone_label = ZoneLabel(zone_key)]
                   IN IF z.mode # "zone" THEN z
                      ELSE Meter_start_session(
                               IF z.active
                               THEN Meter_end_session(z, n, pkt.timestamp, "zone_change",
                                                      m0.zone_label)
                               ELSE z,
                               pkt.timestamp)
              ELSE m0
        m2 == IF /\ m1.mode = "battle" /\ m1.active
                 /\ m1.last_combat_event_ts # NoTs
                 /\ pkt.timestamp - m1.last_combat_event_ts >= BATTLE_TIMEOUT_SECONDS
              THEN Meter_end_session(m1, n, pkt.timestamp, "idle", NoName) ELSE m1
        m3 == IF /\ m2.mode = "battle" /\ m2.active
                 /\ m2.combat_end_ts # NoTs
                 /\ pkt.timestamp - m2.combat_end_ts >= COMBAT_END_GRACE_SECONDS
              THEN Meter_end_session(m2, n, CombatEndTs(m2), "combat_state", NoName) ELSE m2
    IN m3

Meter_snapshot(m) ==
    IF ~m.active THEN [timestamp |-> OrTs(m.last_seen_ts, 0), totals |-> <<>>]
    ELSE [timestamp |-> OrTs(m.last_seen_ts, m.last_event_ts), totals |-> m.totals]

RECURSIVE Reverse(_)
Reverse(s) == IF s = <<>> THEN <<>> ELSE Append(Reverse(Tail(s)), Head(s))

\* limit = 0 stands for limit=None
Meter_history(m, limit) ==
    LET entries == Reverse(m.history[m.mode])
    IN IF limit <= 0 \/ limit >= Len(entries) THEN entries ELSE SubSeq(entries, 1, limit)

Contains(summary, timestamp) ==
    ~(timestamp < summary.start_ts \/ timestamp > summary.end_ts)

RECURSIVE GroupedOf(_, _)
GroupedOf(entries, grouped) ==
    IF entries = <<>> THEN grouped
    ELSE GroupedOf(Tail(entries),
                   GroupedSet(grouped, entries[1].label, entries[1].damage, entries[1].heal))

\* variant: the rebuilt summary loses its zone label
Regrouped_Unlabelled(summary, grouped) ==
    SessionSummary(summary.mode, summary.start_ts, summary.end_ts, summary.duration,
                   NoName, build_entries_from_grouped(grouped, summary.duration),
                   summary.reason)

Regrouped(summary, grouped) ==
    SessionSummary(summary.mode, summary.start_ts, summary.end_ts, summary.duration,
                   summary.label, build_entries_from_grouped(grouped, summary.duration),
                   summary.reason)

\* the summary the merge goes to: the newest of the mode's history holding the timestamp
MergeIndex(m, event) ==
    LET history == m.history[m.mode]
        hits == {k \in DOMAIN history : Contains(history[k], event.timestamp)}
    IN IF hits = {} THEN 0 ELSE Max(hits)

\* variant: the event is merged but a miss is reported
Meter_merge_event_into_history_NoFlag(m, n, event) ==
    LET idx == MergeIndex(m, event)
    IN IF idx = 0 THEN [meter |-> m, merged |-> FALSE]
       ELSE LET summary == m.history[m.mode][idx]
                label == LabelOf(n, event.source_id)
                grouped == GroupedOf(summary.entries, <<>>)
                cur == GroupedGet(grouped, label)
            IN [meter |-> [m EXCEPT !.history[m.mode][idx] =
                              Regrouped(summary, GroupedSet(grouped, label,
                                                            cur[1] + event.amount, cur[2]))],
                merged |-> FALSE]

\* merge_event_into_history: [meter, merged]
Meter_merge_event_into_history(m, n, event) ==
    LET idx == MergeIndex(m, event)
    IN IF idx = 0 THEN [meter |-> m, merged |-> FALSE]
       ELSE LET summary == m.history[m.mode][idx]
                label == LabelOf(n, event.source_id)
                grouped == GroupedOf(summary.entries, <<>>)
                cur == GroupedGet(grouped, label)
                merged == IF event.kind = "damage"
                          THEN GroupedSet(grouped, label, cur[1] + event.amount, cur[2])
                          ELSE GroupedSet(grouped, label, cur[1], cur[2] + event.amount)
            IN [meter |-> [m EXCEPT !.history[m.mode][idx] = Regrouped(summary, merged)],
                merged |-> TRUE]

\* label.isdigit() and int(label), over the labels str() makes of entity ids
IsDigit(label) == \E i \in 0..9 : str(i) = label
IntOf(label) == CHOOSE i \in 0..9 : str(i) = label

RECURSIVE Relabelled(_, _, _)
Relabelled(entries, n, grouped) ==
    IF entries = <<>> THEN grouped
    ELSE LET entry == entries[1]
             mapped == IF IsDigit(entry.label) THEN Names_lookup(n, IntOf(entry.label))
                       ELSE NoName
             label == IF mapped # NoName THEN mapped ELSE entry.label
             cur == GroupedGet(grouped, label)
         IN Relabelled(Tail(entries), n,
                       GroupedSet(grouped, label, cur[1] + entry.damage, cur[2] + entry.heal))

\* changed_local of one summary: a numeric label got a name, or a label came twice
RefreshChangedLocal(entries, n) ==
    LET mapped(i) == IF IsDigit(entries[i].label)
                     THEN Names_lookup(n, IntOf(entries[i].label)) ELSE NoName
        label(i) == IF mapped(i) # NoName THEN mapped(i) ELSE entries[i].label
    IN \/ \E i \in DOMAIN entries : mapped(i) # NoName
       \/ \E i, j \in DOMAIN entries : i < j /\ label(i) = label(j)

\* the value refresh_history_labels returns
RefreshChanged(m, n) ==
    \E k \in DOMAIN m.history[m.mode] : RefreshChangedLocal(m.history[m.mode][k].entries, n)

Meter_refresh_history_labels(m, n) ==
    [m EXCEPT !.history[m.mode] =
        [k \in DOMAIN @ |-> Regrouped(@[k], Relabelled(@[k].entries, n, <<>>))]]

\* variant: the end of the stream leaves the session open
Meter_finalize_Open(m, n) == m

Meter_finalize(m, n) ==
    IF ~m.active THEN m
    ELSE LET end_ts == OrTs(m.last_seen_ts, OrTs(m.last_event_ts, 0))
         IN IF m.mode = "battle" /\ m.combat_end_ts # NoTs
            THEN Meter_end_session(m, n, CombatEndTs(m), "combat_state", NoName)
            ELSE IF /\ m.mode = "battle"
                    /\ m.last_combat_event_ts # NoTs
                    /\ end_ts - m.last_combat_event_ts >= BATTLE_TIMEOUT_SECONDS
            THEN Meter_end_session(m, n, end_ts, "idle", NoName)
            ELSE Meter_end_session(m, n, end_ts, "stream_end", NoName)

\* self._last_seen_ts or self._last_event_ts or 0.0
LastTs(m) == OrTs(m.last_seen_ts, OrTs(m.last_event_ts, 0))

Meter_set_mode(m, n, mode) ==
    IF mode = m.mode THEN m
    ELSE LET m1 == Meter_end_session(m, n, LastTs(m), "mode_change", NoName)
             m2 == [m1 EXCEPT !.mode = mode, !.manual_active = FALSE, !.combatants = {},
                              !.combat_end_ts = NoTs, !.last_combat_event_ts = NoTs,
                              !.saw_combat_state = FALSE]
         IN IF mode = "zone" /\ m2.zone_key # NoZone
            THEN Meter_start_session(m2, OrTs(m2.last_seen_ts, 0)) ELSE m2

\* toggle_manual: [meter, result]
Meter_toggle_manual(m, n) ==
    IF m.mode # "manual" THEN [meter |-> m, result |-> FALSE]
    ELSE IF m.manual_active
    THEN [meter |-> Meter_end_session([m EXCEPT !.manual_active = FALSE], n, LastTs(m),
                                      "manual_stop", NoName),
          result |-> FALSE]
    ELSE [meter |-> Meter_start_session([m EXCEPT !.manual_active = TRUE],
                                        OrTs(m.last_seen_ts, 0)),
          result |-> TRUE]

\* the public end_session()
Meter_end_session_call(m, n) == Meter_end_session(m, n, LastTs(m), "manual_end", NoName)

----------------------------------------------------------------------------
(* Inputs *)

\* entity ids on the wire: two players, a mob
Ids == {1, 2, 3}
PlayerNames == {"A", "B"}
\* the gaps of SpecParty: none, 20 s
CallGaps == {0, 400}

Endpoint(ip, port) == [ip |-> ip, port |-> port]
Client == Endpoint("client", PORT_CLIENT)
ZoneA == Endpoint("zoneA", PORT_ZONE_A)
ZoneB == Endpoint("zoneB", PORT_ZONE_B)
Login == Endpoint("login", PORT_LOGIN)
\* <<source, destination>> of the packets seen on the wire
Routes == {<<Client, ZoneA>>, <<ZoneA, Client>>, <<Client, ZoneB>>}

RawPacket(ts, route, payload_len) ==
    [timestamp |-> ts, src_ip |-> route[1].ip, src_port |-> route[1].port,
     dst_ip |-> route[2].ip, dst_port |-> route[2].port, payload_len |-> payload_len]
NoPacket == RawPacket(NoTs, <<Login, Login>>, 0)

TargetRequest(id) == Msg(NoCode, TARGET_REQUEST_OPCODE, NoCode, id, NoId, <<>>, NoGuid, FALSE, FALSE, <<>>)
TargetLink(a, b) == Msg(PARTY_EVENT_CODE, NoCode, COMBAT_TARGET_SUBTYPE, a, b, <<>>, NoGuid, FALSE, FALSE, <<>>)
RosterId(id) == Msg(PARTY_EVENT_CODE, NoCode, 209, id, NoId, <<>>, NoGuid, FALSE, FALSE, <<>>)
RosterNames(nms) == Msg(PARTY_EVENT_CODE, NoCode, 227, NoId, NoId, nms, NoGuid, FALSE, FALSE, <<>>)
SelfName(nm) == Msg(PARTY_EVENT_CODE, NoCode, 228, NoId, NoId, <<nm>>, NoGuid, FALSE, FALSE, <<>>)
UnitInfo(id, nm) == Msg(PARTY_EVENT_CODE, NoCode, NAME_SUBTYPE_UNIT_INFO, id, NoId, <<nm>>, NoGuid, FALSE, FALSE, <<>>)
IdName(id, nm) == Msg(PARTY_EVENT_CODE, NoCode, NAME_SUBTYPE_ID_NAME, id, NoId, <<nm>>, NoGuid, FALSE, FALSE, <<>>)

\* snapshot_interval: float = 1.0
SNAPSHOT_INTERVAL == 20

PipeInit ==
    [pc |-> "recv", packet |-> NoPacket, messages |-> <<>>, events |-> <<>>,
     pending_events |-> <<>>, pending_combat_states |-> <<>>,
     todo |-> <<>>, remaining |-> <<>>, retain_unresolved |-> FALSE,
     last_timestamp |-> NoTs, last_emit |-> NoTs, snapshot_interval |-> SNAPSHOT_INTERVAL,
     n |-> 0]

\* capture timestamps are positive: the first packet is stamped 1 or later
NextTimestamp(gap) == (IF pipe.last_timestamp = NoTs THEN 1 ELSE pipe.last_timestamp) + gap

Did(op, arg, result) == [op |-> op, arg |-> arg, result |-> result]

----------------------------------------------------------------------------
(* SpecParty: the PartyRegistry driven through its public methods, in any   *)
(* order, against a NameRegistry that records names.                        *)

MaxCalls == 4

\* the roster broadcast of a party that has no member left
Disband == RosterNames(<<>>)

PartyMessages ==
    {TargetRequest(3), TargetLink(1, 3), RosterId(1), RosterId(2), RosterNames(<<"A">>),
     SelfName("A"), Disband}

InitParty ==
    /\ names = NamesInit
    \* PartyRegistry(), then the CLI's optional set_self_name(self_name, confirmed=True)
    /\ \E strict \in BOOLEAN, self_name \in {NoName, "A"} :
           party = Party_set_self_name(PartyInit(strict), self_name, TRUE)
    /\ meter = <<>>
    /\ pipe = PipeInit
    /\ trace = Did("init", NoId, FALSE)

Called == /\ pipe.n < MaxCalls
          /\ UNCHANGED meter

\* a query: it consumes no input
Queried == UNCHANGED <<meter, pipe>>

P_observe_packet ==
    \E route \in Routes, gap \in CallGaps :
        LET pkt == RawPacket(NextTimestamp(gap), route, 1)
        IN /\ Called
           /\ party' = Party_observe_packet(party, pkt)
           /\ pipe' = [pipe EXCEPT !.packet = pkt, !.last_timestamp = pkt.timestamp, !.n = @ + 1]
           \* the primary self id held on arrival, and whether the zone key is replaced
           /\ trace' = Did("observe_packet", party.primary_self_id,
                           party.zone_key # NoZone /\ party'.zone_key # party.zone_key)
           /\ UNCHANGED names

P_observe ==
    \E m \in PartyMessages :
        /\ Called
        /\ pipe.packet # NoPacket
        /\ party' = Party_observe(party, m, pipe.packet)
        /\ pipe' = [pipe EXCEPT !.n = @ + 1]
        /\ trace' = Did("observe", NoId, m = Disband)
        /\ UNCHANGED names

P_observe_combat_event ==
    \E src \in {1, 2} :
        /\ Called
        /\ pipe.packet # NoPacket
        /\ party' = Party_observe_combat_event(
                        party, CombatEvent(pipe.packet.timestamp, src, 3, "damage", 1))
        /\ pipe' = [pipe EXCEPT !.n = @ + 1]
        /\ trace' = Did("other", NoId, FALSE)
        /\ UNCHANGED names

\* The candidate the acceptance rule of the party registry names on registry p: the
\* highest-scoring unexpired candidate when its score is >= 1.0, it leads the
\* runner-up (0 when absent) by >= 1.0 and it has a combat hit; NoId when there is none.
QualifiedBest(p) ==
    LET newest == Max(Range(p.self_candidate_last_ts))
        alive == {e \in DOMAIN p.self_candidate_scores :
                     p.self_candidate_last_ts[e] >= newest - SELF_ID_CANDIDATE_TTL_SECONDS}
        tops == {e \in alive :
                    /\ p.self_candidate_scores[e] >= 2
                    /\ \A o \in alive \ {e} :
                           p.self_candidate_scores[e] - p.self_candidate_scores[o] >= 2
                    /\ Get(p.self_candidate_combat_hits, e, 0) >= 1}
    IN IF DOMAIN p.self_candidate_scores = {} \/ tops = {} THEN NoId
       ELSE CHOOSE e \in tops : TRUE

P_try_resolve_self_id ==
    /\ Queried
    /\ party' = Party_try_resolve_self_id(party, names)
    /\ trace' = Did("try_resolve_self_id",
                    IF party.primary_self_id = NoId THEN QualifiedBest(party) ELSE NoId,
                    party.primary_self_id = NoId /\ party'.primary_self_id # NoId)
    /\ UNCHANGED names

P_seed ==
    \E id \in {1, 2} :
        /\ Called
        /\ \/ party' = Party_seed_self_ids(party, <<id>>) /\ trace' = Did("seed_self_ids", id, FALSE)
           \/ party' = Party_seed_ids(party, {id}) /\ trace' = Did("other", NoId, FALSE)
        /\ pipe' = [pipe EXCEPT !.n = @ + 1]
        /\ UNCHANGED names

P_sync ==
    /\ Called
    /\ LET p1 == Party_sync_names(party, names)
           p2 == Party_infer_self_name_from_targets(p1, names)
       IN /\ party' = p2
          /\ names' = Party_sync_id_names(p2, names)
    /\ pipe' = [pipe EXCEPT !.n = @ + 1]
    /\ trace' = Did("other", NoId, FALSE)

P_allows ==
    \E id \in {1, 2} :
        /\ Queried
        /\ party' = Party_allows_seen(party, id)
        /\ trace' = Did("allows", id, Party_allows(party, names, id))
        /\ UNCHANGED names

P_record ==
    \E id \in {1, 2} :
        /\ Called
        /\ names' = Names_record(names, id, "A")
        /\ pipe' = [pipe EXCEPT !.n = @ + 1]
        /\ trace' = Did("other", NoId, FALSE)
        /\ UNCHANGED party

NextParty ==
    \/ P_observe_packet
    \/ P_observe
    \/ P_observe_combat_event
    \/ P_try_resolve_self_id
    \/ P_seed
    \/ P_sync
    \/ P_allows
    \/ P_record

SpecParty == InitParty /\ [][NextParty]_vars

----------------------------------------------------------------------------
(* Claims on the PartyRegistry *)

\* a step that crosses a zone boundary: the remembered zone key is replaced
ZoneChangeStep == party.zone_key # NoZone /\ party'.zone_key # party.zone_key

\* the fields a zone change resets, outbound timestamps apart
ZoneCleared(p) ==
    /\ p.self_ids = {} /\ p.primary_self_id = NoId
    /\ p.self_candidate_scores = EmptyDict /\ p.self_candidate_last_ts = EmptyDict
    /\ p.self_candidate_link_hits = EmptyDict /\ p.self_candidate_combat_hits = EmptyDict
    /\ p.target_ids = {} /\ p.recent_target_ids = <<>> /\ p.target_request_ts = EmptyDict
    /\ p.party_roster_candidates = {} /\ p.combat_ids_seen = {}

SelfNameKept ==
    /\ party'.self_name = party.self_name
    /\ party'.self_name_confirmed = party.self_name_confirmed

\* C6 as stated: once observe_packet has seen a zone endpoint other than the remembered
\* one, self_ids, primary_self_id, the candidate dictionaries, the target buffers
\* (outbound timestamps included), roster candidates and combat_ids_seen are empty, and
\* self_name and its confirmed flag are unchanged.
C6_ZoneResetAsStated ==
    [][ZoneChangeStep =>
          /\ ZoneCleared(party')
          /\ party'.recent_outbound_ts = <<>>
          /\ SelfNameKept]_vars

\* C6 amended: after such an observe_packet all of these are empty except the outbound
\* timestamps, which hold nothing but the timestamp of the packet just observed (and
\* hold it when that packet goes from the client to a zone port); self_name and its
\* confirmed flag are unchanged.
C6_ZoneReset ==
    [][ZoneChangeStep =>
          /\ ZoneCleared(party')
          /\ party'.recent_outbound_ts =
                 IF pipe'.packet.dst_port \in ZONE_PORTS /\ pipe'.packet.src_port \notin SERVER_PORTS
                 THEN <<pipe'.packet.timestamp>> ELSE <<>>
          /\ SelfNameKept]_vars

\* C6 witness: a zone change that took a resolved self id away and kept the self name
C6_Witness ==
    /\ trace.op = "observe_packet" /\ trace.result /\ trace.arg # NoId
    /\ party.self_ids = {}
    /\ party.self_name # NoName
    /\ party.recent_outbound_ts # <<>>

C8_PrimaryAssignedOnce ==
    [][(party.primary_self_id # NoId /\ ~ZoneChangeStep)
          => party'.primary_self_id = party.primary_self_id]_vars

\* C8 witness: seed_self_ids was called with another id while a primary id was held
C8_Witness ==
    /\ trace.op = "seed_self_ids"
    /\ party.primary_self_id # NoId
    /\ trace.arg # party.primary_self_id
    /\ trace.arg \in party.self_ids

\* C9 as stated: try_resolve_self_id accepts only a candidate with a combat hit and a
\* target-link hit.
C9_CombatAndLinkAsStated ==
    (trace.op = "try_resolve_self_id" /\ trace.result) =>
        /\ Get(party.self_candidate_combat_hits, party.primary_self_id, 0) >= 1
        /\ Get(party.self_candidate_link_hits, party.primary_self_id, 0) >= 1

\* exactly one candidate resolves to the confirmed self name
UniqueNameMatch(p, n) ==
    /\ p.self_name_confirmed
    /\ p.self_name # NoName
    /\ Cardinality({e \in DOMAIN p.self_candidate_scores :
                       Names_lookup(n, e) = p.self_name}) = 1

\* C9 amended: try_resolve_self_id accepts only a candidate with a combat hit; a
\* target-link hit is required as well only when the candidate is taken because it is
\* the one candidate that resolves to the confirmed self name.
C9_CombatEvidence ==
    (trace.op = "try_resolve_self_id" /\ trace.result) =>
        /\ Get(party.self_candidate_combat_hits, party.primary_self_id, 0) >= 1
        /\ UniqueNameMatch(party, names) =>
               Get(party.self_candidate_link_hits, party.primary_self_id, 0) >= 1

\* C9 witness: a candidate accepted on combat evidence alone
C9_Witness ==
    /\ trace.op = "try_resolve_self_id" /\ trace.result
    /\ Get(party.self_candidate_link_hits, party.primary_self_id, 0) = 0

\* C10 as stated: a best candidate that meets the score rule is accepted whatever the
\* self name and the names of the candidates.
C10_AcceptedAsStated ==
    (trace.op = "try_resolve_self_id" /\ trace.arg # NoId) =>
        /\ party.primary_self_id = trace.arg
        /\ trace.arg \in party.self_ids \cap party.party_ids

----------------------------------------------------------------------------
(* SpecNames: the NameRegistry fed with name messages and with record /      *)
(* record_weak calls, in any order.                                          *)

Guids == {"g1", "g2"}
GuidLink(id, guid) == Msg(PARTY_EVENT_CODE, NoCode, NoCode, NoId, id, <<>>, guid, FALSE, FALSE, <<>>)
RosterGuidNames(guid, nm) == Msg(PARTY_EVENT_CODE, NoCode, 229, NoId, NoId, <<nm>>, guid, FALSE, FALSE, <<>>)

NameMessages ==
    {UnitInfo(id, nm) : id \in {1, 2}, nm \in PlayerNames}
        \cup {IdName(id, nm) : id \in {1, 2}, nm \in PlayerNames}
        \cup {GuidLink(id, g) : id \in {1, 2}, g \in Guids}
        \cup {RosterGuidNames(g, nm) : g \in Guids, nm \in PlayerNames}
        \cup {TargetRequest(3)}

InitNames ==
    /\ names = NamesInit
    /\ party = PartyInit(TRUE)
    /\ meter = <<>>
    /\ pipe = PipeInit
    /\ trace = Did("init", NoId, FALSE)

N_observe ==
    \E m \in NameMessages :
        /\ names' = Names_observe(names, m)
        /\ trace' = Did("observe", NoId, FALSE)
        /\ UNCHANGED <<party, meter, pipe>>

N_record ==
    \E id \in {1, 2}, nm \in PlayerNames :
        /\ names' = Names_record(names, id, nm)
        /\ trace' = Did("record", <<id, nm>>, DOMAIN names.names \ DOMAIN names'.names # {})
        /\ UNCHANGED <<party, meter, pipe>>

N_record_weak ==
    \E id \in {1, 2}, nm \in PlayerNames :
        /\ names' = Names_record_weak(names, id, nm)
        /\ trace' = Did("record_weak", <<id, nm>>, names' = names)
        /\ UNCHANGED <<party, meter, pipe>>

NextNames == N_observe \/ N_record \/ N_record_weak

SpecNames == InitNames /\ [][NextNames]_vars

----------------------------------------------------------------------------
(* Claims on the NameRegistry *)

\* C5: once an id holds a strong binding to a name, no later message, record or
\* record_weak makes lookup(id) or snapshot()[id] give a different name.
C5_StrongNameKept ==
    [][\A e \in DOMAIN names.strong_id_names :
          /\ Names_lookup(names', e) = names.strong_id_names[e]
          /\ e \in DOMAIN Names_snapshot(names')
          /\ Names_snapshot(names')[e] = names.strong_id_names[e]]_vars

----------------------------------------------------------------------------
(* The pipeline: stream_snapshots, one step per stage of the loop body.     *)
(* pipe.pc is the position: "recv" between packets, "messages" after        *)
(* party_registry.observe_packet, "flush1" / "flush2" inside the two calls  *)
(* of _flush_or_trim_pending, "events" in the event loop, "states" at the   *)
(* combat-state loop, "end" before meter.observe_packet, "done" after       *)
(* finalize.                                                                *)

COMBAT_STATE_EVENT_CODE == 1
PENDING_MAX_AGE == 2400
\* pending_max_count, 2000 in the source, scaled down to the packets a run carries
PENDING_MAX_COUNT == 2

\* the event mapper: the message's events, stamped with the packet's timestamp
mapper(m, pkt) ==
    [k \in DOMAIN m.combat |->
        CombatEvent(pkt.timestamp, m.combat[k].source_id, m.combat[k].target_id,
                    m.combat[k].kind, m.combat[k].amount)]

RECURSIVE MappedEvents(_, _)
MappedEvents(messages, pkt) ==
    IF messages = <<>> THEN <<>>
    ELSE mapper(messages[1], pkt) \o MappedEvents(Tail(messages), pkt)

\* _decode_combat_state: <<entity_id, in_active, in_passive>>, or <<>> for None
decode_combat_state(m) ==
    IF m.event_code = NoCode \/ m.event_code # COMBAT_STATE_EVENT_CODE THEN <<>>
    ELSE IF m.subtype \notin COMBAT_STATE_SUBTYPE_VALUES THEN <<>>
    ELSE IF m.id = NoId THEN <<>>
    ELSE <<m.id, m.active, m.passive>>

\* mutant of allow_event: the gate is left open
allow_event_Open(p, n, event) == TRUE

\* _allow_event and _allow_combat_state: the answer of party_registry.allows
allow_event(p, n, event) == Party_allows(p, n, event.source_id)
allow_combat_state(p, n, entity_id) == Party_allows(p, n, entity_id)

\* the pending condition of the direct path
MayPend(p) == p.strict /\ (~Party_has_ids(p) \/ Party_has_unresolved_names(p))

\* the one element of a singleton set
Only(S) == CHOOSE x \in S : TRUE

\* lines 111-122: one message through the registries; <<party, names>>.  Each stage
\* is bound once: names after observe (n1), <<party, names>> after sync_names and
\* infer_self_name_from_targets (q), then after sync_id_names (s), then
\* try_resolve_self_id.
ObserveMessage(p, n, m, pkt) ==
    Only({<<Party_try_resolve_self_id(s[1], s[2]), s[2]>> :
          s \in {<<q[1], Party_sync_id_names(q[1], q[2])>> :
                 q \in {<<Party_infer_self_name_from_targets(
                              Party_sync_names(Party_observe(p, m, pkt), n1), n1), n1>> :
                        n1 \in {Names_observe(n, m)}}}})

RECURSIVE ObserveMessages(_, _, _, _)
ObserveMessages(p, n, messages, pkt) ==
    IF messages = <<>> THEN <<p, n>>
    ELSE Only({ObserveMessages(r[1], r[2], Tail(messages), pkt) :
               r \in {ObserveMessage(p, n, messages[1], pkt)}})

\* pending_events[:] = [item for item in pending_events if item.timestamp >= cutoff]
RECURSIVE KeepFrom(_, _)
KeepFrom(items, cutoff) ==
    IF items = <<>> THEN <<>>
    ELSE IF items[1].timestamp >= cutoff THEN <<items[1]>> \o KeepFrom(Tail(items), cutoff)
    ELSE KeepFrom(Tail(items), cutoff)

\* variant of LastN: the list is never cut to the cap
LastN_Uncut(items, count) == items

\* items[-pending_max_count:]
LastN(items, count) ==
    IF Len(items) > count THEN SubSeq(items, Len(items) - count + 1, Len(items)) ELSE items

\* lines 306-313: trim by age and by count
Trimmed(items, now_ts) ==
    LastN(IF now_ts - PENDING_MAX_AGE > 0 THEN KeepFrom(items, now_ts - PENDING_MAX_AGE)
          ELSE items,
          PENDING_MAX_COUNT)

\* sorted(pending_combat_states): by timestamp, then entity id, then the flags
StateBefore(a, b) ==
    \/ a.timestamp < b.timestamp
    \/ a.timestamp = b.timestamp /\ a.entity_id < b.entity_id
    \/ a.timestamp = b.timestamp /\ a.entity_id = b.entity_id /\ ~a.in_active /\ b.in_active
    \/ /\ a.timestamp = b.timestamp /\ a.entity_id = b.entity_id
       /\ a.in_active = b.in_active /\ ~a.in_passive /\ b.in_passive

RECURSIVE SortedStates(_)
SortedStates(s) ==
    IF s = <<>> THEN <<>>
    ELSE LET rest == SortedStates(SubSeq(s, 1, Len(s) - 1))
             e == s[Len(s)]
             k == Cardinality({j \in DOMAIN rest : ~StateBefore(e, rest[j])})
         IN SubSeq(rest, 1, k) \o <<e>> \o SubSeq(rest, k + 1, Len(rest))

PendingState(ts, entity_id, in_active, in_passive) ==
    [timestamp |-> ts, entity_id |-> entity_id, in_active |-> in_active,
     in_passive |-> in_passive]

----------------------------------------------------------------------------
(* Spec: the pipeline over a SessionMeter in battle mode with strict party   *)
(* gating, as the command line builds them.                                  *)

MaxPackets == 5
HistoryLimit == 2

Inbound == <<ZoneA, Client>>
Outbound == <<Client, ZoneA>>
OutboundB == <<Client, ZoneB>>

Hit(source_id, target_id) ==
    Msg(PARTY_EVENT_CODE, NoCode, NoCode, NoId, NoId, <<>>, NoGuid, FALSE, FALSE,
        <<[source_id |-> source_id, target_id |-> target_id, kind |-> "damage", amount |-> 1]>>)
CombatState(id, active) ==
    Msg(PARTY_EVENT_CODE, NoCode, 257, id, NoId, <<>>, NoGuid, active, FALSE, <<>>)

Packet(route, gap, payload) == [route |-> route, gap |-> gap, payload |-> payload]

\* what the wire carries, each with the time since the packet before it: a keepalive
\* after 20 s of silence; the player 1 hits; the party roster names "B" and a party
\* member 2 hits, 20 s after the packet before; the name of 2 arrives; the client
\* picks target 3; 1 enters combat; the client moves to another zone
PacketKinds ==
    {Packet(Inbound, 400, <<>>),
     Packet(Inbound, 0, <<Hit(1, 3)>>),
     Packet(Inbound, 400, <<RosterNames(<<"B">>), Hit(2, 3)>>),
     Packet(Inbound, 0, <<UnitInfo(2, "B")>>),
     Packet(Inbound, 0, <<CombatState(1, TRUE)>>),
     Packet(Outbound, 0, <<TargetRequest(3)>>),
     Packet(OutboundB, 0, <<>>)}

Members(p) == p.self_ids \cup p.party_ids

SnapshotIntervals == {0, SNAPSHOT_INTERVAL}

\* the last step, and every id the gate has had in self_ids or party_ids so far
Saw(op, arg, result, p) ==
    [op |-> op, arg |-> arg, result |-> result, members |-> trace.members \cup Members(p)]

Init ==
    /\ names = NamesInit
    \* PartyRegistry(), then the command line's optional seed_self_ids([self_id])
    /\ \E seeded \in BOOLEAN :
           party = IF seeded THEN Party_seed_self_ids(PartyInit(TRUE), <<1>>)
                   ELSE PartyInit(TRUE)
    /\ meter = MeterInit("battle", HistoryLimit)
    \* stream_snapshots(snapshot_interval=...): 1.0 s, or 0 for a snapshot per packet
    /\ \E interval \in SnapshotIntervals : pipe = [PipeInit EXCEPT !.snapshot_interval = interval]
    /\ trace = [op |-> "init", arg |-> NoId, result |-> FALSE, members |-> Members(party)]

\* lines 302-317 of _flush_or_trim_pending: trim, then either return (on to stage
\* `after`) or enter the release loops (stage `flush`)
FlushStart(q, p, flush, after) ==
    LET events == Trimmed(q.pending_events, q.packet.timestamp)
        states == Trimmed(q.pending_combat_states, q.packet.timestamp)
        q1 == IF q.pending_events = <<>> /\ q.pending_combat_states = <<>> THEN q
              ELSE [q EXCEPT !.pending_events = events, !.pending_combat_states = states]
    IN IF q1.pending_events = <<>> /\ q1.pending_combat_states = <<>> THEN [q1 EXCEPT !.pc = after]
       ELSE IF ~Party_has_ids(p) THEN [q1 EXCEPT !.pc = after]
       ELSE [q1 EXCEPT !.pc = flush, !.todo = q1.pending_events, !.remaining = <<>>,
                       !.retain_unresolved = Party_has_unresolved_names(p)]

\* lines 106-109: the next packet arrives
Recv(kind) ==
    LET pkt == RawPacket(NextTimestamp(kind.gap), kind.route, Len(kind.payload))
    IN /\ pipe.pc = "recv"
       /\ pipe.n < MaxPackets
       /\ party' = Party_observe_packet(party, pkt)
       /\ pipe' = [pipe EXCEPT !.pc = "messages", !.packet = pkt,
                               !.messages = kind.payload,
                               !.last_timestamp = pkt.timestamp, !.n = @ + 1]
       /\ trace' = Saw("recv", NoId, FALSE, party')
       /\ UNCHANGED <<names, meter>>

S_recv == \E kind \in PacketKinds : Recv(kind)

\* lines 110-132: the messages through the registries, then the first flush begins
S_messages ==
    /\ pipe.pc = "messages"
    /\ \E r \in {ObserveMessages(party, names, pipe.messages, pipe.packet)} :
          /\ party' = r[1]
          /\ names' = r[2]
          /\ pipe' = FlushStart([pipe EXCEPT !.events = MappedEvents(pipe.messages, pipe.packet)],
                                r[1], "flush1", "events")
    /\ trace' = Saw("messages", NoId, FALSE, party')
    /\ UNCHANGED meter

\* a release loop that keeps in the pending list what it has delivered
S_flush_event_Kept ==
    /\ pipe.pc \in {"flush1", "flush2"}
    /\ pipe.todo # <<>>
    /\ LET item == Head(pipe.todo)
           allowed == allow_event(party, names, item)
           r == Meter_merge_event_into_history(meter, names, item)
       IN /\ party' = Party_allows_seen(party, item.source_id)
          /\ meter' = IF ~allowed THEN meter
                      ELSE IF r.merged THEN r.meter
                      ELSE Meter_push(r.meter, item)
          /\ pipe' = [pipe EXCEPT !.todo = Tail(@),
                                  !.remaining = IF pipe.retain_unresolved
                                                THEN Append(@, item) ELSE @]
          /\ trace' = Saw(IF allowed THEN (IF r.merged THEN "merge" ELSE "push")
                          ELSE IF pipe.retain_unresolved THEN "retain" ELSE "drop",
                          item.source_id, allowed, party')
    /\ UNCHANGED names

\* lines 320-326: one pending event is released, retained or dropped
S_flush_event ==
    /\ pipe.pc \in {"flush1", "flush2"}
    /\ pipe.todo # <<>>
    /\ LET item == Head(pipe.todo)
           allowed == allow_event(party, names, item)
           r == Meter_merge_event_into_history(meter, names, item)
       IN /\ party' = Party_allows_seen(party, item.source_id)
          /\ meter' = IF ~allowed THEN meter
                      ELSE IF r.merged THEN r.meter
                      ELSE Meter_push(r.meter, item)
          /\ pipe' = [pipe EXCEPT !.todo = Tail(@),
                                  !.remaining = IF ~allowed /\ pipe.retain_unresolved
                                                THEN Append(@, item) ELSE @]
          /\ trace' = Saw(IF allowed THEN (IF r.merged THEN "merge" ELSE "push")
                          ELSE IF pipe.retain_unresolved THEN "retain" ELSE "drop",
                          item.source_id, allowed, party')
    /\ UNCHANGED names

\* lines 330-337 for one pending combat state: <<party, meter, remaining>>
FlushState(acc, item, n, retain) ==
    LET allowed == allow_combat_state(acc[1], n, item.entity_id)
    IN <<Party_allows_seen(acc[1], item.entity_id),
         IF allowed
         THEN Meter_observe_combat_state(acc[2], item.entity_id, item.in_active,
                                         item.in_passive, item.timestamp)
         ELSE acc[2],
         IF ~allowed /\ retain THEN Append(acc[3], item) ELSE acc[3]>>

RECURSIVE FlushStates(_, _, _, _)
FlushStates(acc, items, n, retain) ==
    IF items = <<>> THEN acc
    ELSE FlushStates(FlushState(acc, items[1], n, retain), Tail(items), n, retain)

\* lines 327-339: the event loop is over; the pending combat states are released
S_flush_states ==
    /\ pipe.pc \in {"flush1", "flush2"}
    /\ pipe.todo = <<>>
    /\ LET r == FlushStates(<<party, meter, <<>> >>, SortedStates(pipe.pending_combat_states),
                            names, pipe.retain_unresolved)
       IN /\ party' = r[1]
          /\ meter' = r[2]
          /\ pipe' = [pipe EXCEPT
                        !.pc = IF pipe.pc = "flush1" THEN "events" ELSE "end",
                        !.pending_events = IF @ # <<>> THEN pipe.remaining ELSE @,
                        !.pending_combat_states = IF @ # <<>> THEN r[3] ELSE @,
                        !.remaining = <<>>]
    /\ trace' = Saw("flush_states", NoId, meter' # meter, party')
    /\ UNCHANGED names

\* lines 133-176: one mapped event on the direct path
S_event ==
    /\ pipe.pc = "events"
    /\ pipe.events # <<>>
    /\ LET event == Head(pipe.events)
           p1 == IF party.strict /\ ~Party_has_ids(party)
                 THEN Party_try_resolve_self_id(Party_observe_combat_event(party, event), names)
                 ELSE party
           allowed == allow_event(p1, names, event)
           p2 == Party_allows_seen(p1, event.source_id)
       IN /\ party' = p2
          /\ meter' = IF allowed THEN Meter_push(meter, event) ELSE meter
          /\ pipe' = [pipe EXCEPT !.events = Tail(@),
                                  !.pending_events = IF ~allowed /\ MayPend(p2)
                                                     THEN Append(@, event) ELSE @]
          /\ trace' = Saw(IF allowed THEN "push" ELSE IF MayPend(p2) THEN "pend" ELSE "drop",
                          event.source_id, allowed, p2)
    /\ UNCHANGED names

\* lines 179-201 for one message: <<party, meter, pending_combat_states>>
ObserveState(acc, m, n, pkt) ==
    LET cs == decode_combat_state(m)
        allowed == allow_combat_state(acc[1], n, cs[1])
        p1 == Party_allows_seen(acc[1], cs[1])
    IN IF cs = <<>> THEN acc
       ELSE IF allowed
       THEN <<p1, Meter_observe_combat_state(acc[2], cs[1], cs[2], cs[3], pkt.timestamp), acc[3]>>
       ELSE IF MayPend(p1)
       THEN <<p1, acc[2], Append(acc[3], PendingState(pkt.timestamp, cs[1], cs[2], cs[3]))>>
       ELSE <<p1, acc[2], acc[3]>>

RECURSIVE ObserveStates(_, _, _, _)
ObserveStates(acc, messages, n, pkt) ==
    IF messages = <<>> THEN acc
    ELSE ObserveStates(ObserveState(acc, messages[1], n, pkt), Tail(messages), n, pkt)

\* lines 178-212: the combat-state loop, then the second flush begins
S_states ==
    /\ pipe.pc = "events"
    /\ pipe.events = <<>>
    /\ LET r == ObserveStates(<<party, meter, pipe.pending_combat_states>>, pipe.messages,
                              names, pipe.packet)
       IN /\ party' = r[1]
          /\ meter' = r[2]
          /\ pipe' = FlushStart([pipe EXCEPT !.pending_combat_states = r[3]], r[1],
                                "flush2", "end")
    \* arg: the pending events held when the second flush is entered
    /\ trace' = Saw("states", Len(pipe.pending_events), meter' # meter, party')
    /\ UNCHANGED names

\* line 225: a snapshot is due
\* variant: a snapshot for every packet
EmitDue_Always(q) == TRUE

EmitDue(q) ==
    \/ q.last_emit = NoTs
    \/ q.snapshot_interval <= 0
    \/ q.packet.timestamp - q.last_emit >= q.snapshot_interval

\* MeterSnapshot(timestamp, totals) as the pipeline yields it
MeterSnapshot(timestamp, m) == [timestamp |-> timestamp, totals |-> Meter_snapshot(m).totals]

\* lines 214-229: the meter sees the packet, history labels are refreshed, and a
\* snapshot is emitted when one is due
S_end ==
    /\ pipe.pc = "end"
    /\ meter' = Meter_refresh_history_labels(Meter_observe_packet(meter, names, pipe.packet),
                                             names)
    /\ pipe' = [pipe EXCEPT !.pc = "recv", !.messages = <<>>,
                            !.last_emit = IF EmitDue(pipe) THEN pipe.packet.timestamp ELSE @]
    \* arg: the snapshot yielded, if one is due
    /\ trace' = IF EmitDue(pipe)
                THEN Saw("emit", MeterSnapshot(pipe.packet.timestamp, meter'), FALSE, party)
                ELSE Saw("end", NoId, FALSE, party)
    /\ UNCHANGED <<names, party>>

\* variant: the end of the stream empties the pending lists
S_finalize_Drained ==
    /\ pipe.pc = "recv"
    /\ meter' = Meter_finalize(meter, names)
    /\ pipe' = [pipe EXCEPT !.pc = "done", !.pending_events = <<>>,
                            !.pending_combat_states = <<>>]
    /\ trace' = Saw("finalize", MeterSnapshot(OrTs(pipe.last_timestamp, 0), meter'),
                    meter.active, party)
    /\ UNCHANGED <<names, party>>

\* lines 231-240: the stream ends
S_finalize ==
    /\ pipe.pc = "recv"
    /\ meter' = Meter_finalize(meter, names)
    /\ pipe' = [pipe EXCEPT !.pc = "done"]
    \* arg: the final snapshot; result: whether a session was open
    /\ trace' = Saw("finalize", MeterSnapshot(OrTs(pipe.last_timestamp, 0), meter'),
                    meter.active, party)
    /\ UNCHANGED <<names, party>>

Next ==
    \/ S_recv
    \/ S_messages
    \/ S_flush_event
    \/ S_flush_states
    \/ S_event
    \/ S_states
    \/ S_end
    \/ S_finalize

Spec == Init /\ [][Next]_vars

----------------------------------------------------------------------------
(* Claims on the pipeline *)

\* the ops by which an event reaches the meter
DeliveryOps == {"push", "merge"}

\* the labels of every retained summary
HistoryLabels(m) ==
    {m.history[k][j].entries[e].label :
        <<k, j, e>> \in {<<k, j, e>> \in Modes \X (1..HistoryLimit + 1) \X (1..3) :
                            /\ j \in DOMAIN m.history[k]
                            /\ e \in DOMAIN m.history[k][j].entries}}

\* damage held by the retained summaries of the current mode, and by the live session
HistoryDamage(m) == SumOf(m.history[m.mode], "total_damage")
LiveDamage(m) == SumOf(m.totals, "damage")

\* C1: in strict mode every event delivered to the meter, by push or by merge, on the
\* direct path or from the pending list, has its source in self_ids or party_ids at
\* that moment; an id that was never in either is no key of the live totals and no
\* numeric label of a history summary.
C1_StrictGate ==
    /\ [](party.strict =>
            \A id \in Ids \ trace.members :
                id \notin Keys(meter.totals) /\ str(id) \notin HistoryLabels(meter))
    /\ [][(party'.strict /\ trace'.op \in DeliveryOps) => trace'.arg \in Members(party')]_vars

\* C1 witness: an event of a member is pushed while an event of a non-member is held back
C1_Witness ==
    /\ trace.op = "push" /\ party.strict
    /\ trace.arg \in Members(party)
    /\ \E k \in DOMAIN pipe.pending_events :
           pipe.pending_events[k].source_id \notin trace.members

\* the steps that handle events and combat states: the message loop, both flushes,
\* the event loop and the combat-state loop
Handling == pipe.pc \in {"messages", "flush1", "flush2", "events"}

\* C2: while the registry is strict and has no self id, no event and no combat state
\* reaches the meter: the steps that handle them leave the meter as it is.
C2_NoSelfNoDelivery ==
    [][(party'.strict /\ party'.self_ids = {} /\ Handling) =>
          (meter' = meter /\ trace'.op \notin DeliveryOps)]_vars

\* C2 witness: the event of a party member is held back because no self id is known
C2_Witness ==
    /\ trace.op = "pend"
    /\ party.strict /\ party.self_ids = {}
    /\ trace.arg \in party.party_ids
    /\ pipe.pending_combat_states # <<>>

\* a pending event is released: its source is allowed
Released == pipe.pc \in {"flush1", "flush2"} /\ pipe.todo # <<>> /\ trace'.result

C4_MergeBeforePush ==
    [][trace'.op = "push" =>
          LET E == IF pipe.pc = "events" THEN Head(pipe.events) ELSE Head(pipe.todo)
              h == meter.history[meter.mode]
          IN \A k \in DOMAIN h : ~Contains(h[k], E.timestamp)]_vars

\* C11 as stated: at all times, also between the two flushes of a packet, the pending
\* events and the pending combat states number at most pending_max_count each.
C11_PendingCappedAsStated ==
    /\ Len(pipe.pending_events) <= PENDING_MAX_COUNT
    /\ Len(pipe.pending_combat_states) <= PENDING_MAX_COUNT

\* C11 amended: both lists number at most pending_max_count whenever a call of
\* _flush_or_trim_pending has returned and until the next event loop begins (so at
\* every packet boundary); in between they exceed it by at most the events, or the
\* combat states, of the packet being processed.
C11_PendingCapped ==
    /\ pipe.pc \in {"recv", "messages", "flush1", "flush2", "end", "done"} =>
           C11_PendingCappedAsStated
    /\ Len(pipe.pending_events) <=
           PENDING_MAX_COUNT + Len(MappedEvents(pipe.messages, pipe.packet))
    /\ Len(pipe.pending_combat_states) <= PENDING_MAX_COUNT + Len(pipe.messages)

\* C11 witness: the second flush was entered with more events than the cap and cut
\* the list to the cap
C11_Witness ==
    /\ trace.op = "states"
    /\ trace.arg > PENDING_MAX_COUNT
    /\ Len(pipe.pending_events) = PENDING_MAX_COUNT

----------------------------------------------------------------------------
(* SpecBattle: a SessionMeter in battle mode fed, in any order, with the     *)
(* events, packets and combat states the pipeline hands it, with the         *)
(* end_session key of the command line, and with finalize at the end of the  *)
(* stream.                                                                   *)

MaxOps == 5

Feed(source_id, target_id, kind, gap) ==
    [source_id |-> source_id, target_id |-> target_id, kind |-> kind, gap |-> gap]

\* player 1 hits the mob, at once or after 20 s; player 1 heals himself 0.25 s later;
\* player 2 hits the mob
BattleFeeds ==
    {Feed(1, 3, "damage", 0), Feed(1, 3, "damage", 400), Feed(1, 1, "heal", 5),
     Feed(2, 3, "damage", 0)}
\* packets at once, 0.25 s and 20 s after the last timestamp
BattleGaps == {0, 5, 400}
\* combat states <<entity_id, in_active>> of the two players
BattleStates == {1, 2} \X BOOLEAN

InitBattle ==
    /\ names = NamesInit
    /\ party = PartyInit(TRUE)
    /\ meter = MeterInit("battle", HistoryLimit)
    /\ pipe = PipeInit
    /\ trace = Did("init", NoId, FALSE)

\* one more call on the meter; pipe carries the clock and the number of calls
Fed(ts) ==
    /\ pipe.pc = "recv"
    /\ pipe.n < MaxOps
    /\ pipe' = [pipe EXCEPT !.last_timestamp = ts, !.n = @ + 1]
    /\ UNCHANGED <<names, party>>

B_push ==
    \E f \in BattleFeeds :
        \E event \in {CombatEvent(NextTimestamp(f.gap), f.source_id, f.target_id, f.kind, 1)} :
            /\ Fed(event.timestamp)
            /\ meter' = Meter_push(meter, event)
            /\ trace' = Did("push", event, ~meter.active)

B_observe_packet ==
    \E gap \in BattleGaps :
        \E pkt \in {RawPacket(NextTimestamp(gap), Inbound, 0)} :
            /\ Fed(pkt.timestamp)
            /\ meter' = Meter_observe_packet(meter, names, pkt)
            /\ trace' = Did("observe_packet", pkt, meter.active /\ ~meter'.active)

B_observe_combat_state ==
    \E cs \in BattleStates :
        /\ Fed(NextTimestamp(0))
        /\ meter' = Meter_observe_combat_state(meter, cs[1], cs[2], FALSE, NextTimestamp(0))
        /\ trace' = Did("observe_combat_state", cs, cs[1] \in meter.seen_sources)

B_end_session ==
    /\ Fed(NextTimestamp(0))
    /\ meter' = Meter_end_session_call(meter, names)
    /\ trace' = Did("end_session", NoId, meter.active /\ ~meter'.active)

B_finalize ==
    /\ pipe.pc = "recv"
    /\ meter' = Meter_finalize(meter, names)
    /\ pipe' = [pipe EXCEPT !.pc = "done"]
    /\ trace' = Did("finalize", NoId, meter.active)
    /\ UNCHANGED <<names, party>>

NextBattle ==
    \/ B_push
    \/ B_observe_packet
    \/ B_observe_combat_state
    \/ B_end_session
    \/ B_finalize

SpecBattle == InitBattle /\ [][NextBattle]_vars

----------------------------------------------------------------------------
(* Claims on the battle mode *)

\* the summary a step archives under the mode it started in
NewSummary == meter'.history[meter.mode][Len(meter'.history[meter.mode])]
ArchivedAs(reason) ==
    /\ trace'.op \notin {"merge", "refresh"}
    /\ meter'.history[meter.mode] # meter.history[meter.mode]
    /\ NewSummary.reason = reason

\* C13 as stated: a battle session is archived with reason combat_state only by a
\* packet stamped 0.25 s or more after combat ended, with end_ts the later of the
\* combat end and the last event.
C13_CombatCloseAsStated ==
    [][ArchivedAs("combat_state") =>
          /\ meter.combat_end_ts # NoTs
          /\ trace'.op = "observe_packet"
          /\ trace'.arg.timestamp - meter.combat_end_ts >= COMBAT_END_GRACE_SECONDS]_vars

\* what a step may do to the end of combat and to the history (see C13)
CombatCloseStep ==
    /\ (meter'.combat_end_ts # NoTs /\ meter'.combat_end_ts # meter.combat_end_ts) =>
           /\ trace'.op = "observe_combat_state"
           /\ trace'.result /\ ~trace'.arg[2]
           /\ meter'.combat_end_ts = pipe'.last_timestamp
    /\ ArchivedAs("combat_state") =>
           /\ meter.combat_end_ts # NoTs
           /\ \/ trace'.op = "finalize"
              \/ /\ trace'.op = "observe_packet"
                 /\ trace'.arg.timestamp - meter.combat_end_ts >= COMBAT_END_GRACE_SECONDS
           /\ NewSummary.end_ts = Max({meter.combat_end_ts, meter.last_event_ts})
    /\ (trace'.op = "observe_combat_state" /\ trace'.result /\ trace'.arg[2]) =>
           meter'.combat_end_ts = NoTs
    /\ (/\ trace'.op = "push" /\ meter.combat_end_ts # NoTs
        /\ trace'.arg.timestamp - meter.combat_end_ts > COMBAT_END_GRACE_SECONDS) =>
           meter'.combat_end_ts = NoTs

\* C13 amended: the end of combat is held only while no entity is in combat and is set
\* only by an off signal of a source seen in the session; a battle session is archived
\* with reason combat_state only while it is held, by a packet stamped 0.25 s or more
\* after it or by finalize, with end_ts the later of it and the last event; an on
\* signal of a seen source and an event more than 0.25 s after it drop it.
C13_CombatClose ==
    /\ [](meter.combat_end_ts # NoTs => meter.combatants = {})
    /\ [][CombatCloseStep]_vars

\* C13 witness: a packet closed the session on the end of combat, and an event within
\* the grace had moved its end to the packet's timestamp
C13_Witness ==
    /\ trace.op = "observe_packet" /\ trace.result
    /\ meter.history["battle"] # <<>>
    /\ LET last == meter.history["battle"][Len(meter.history["battle"])]
       IN /\ last.reason = "combat_state"
          /\ last.end_ts = trace.arg.timestamp
          /\ last.total_heal > 0

\* C15 as stated: the restriction on what advances last_combat_event_ts rests on the
\* signals of the current session only, so the event that opens a session, before any
\* signal of that session, advances it.
C15_FreshSessionAsStated ==
    [][(trace'.op = "push" /\ ~meter.active /\ meter'.active) =>
          meter'.last_combat_event_ts = trace'.arg.timestamp]_vars

----------------------------------------------------------------------------
(* SpecModes: a SessionMeter constructed with a history limit and driven by  *)
(* the pipeline (push, observe_packet, observe_combat_state, the merge and   *)
(* the refresh of the history, finalize), by the keys of the command line    *)
(* (set_mode, toggle_manual, end_session) and by a NameRegistry that learns  *)
(* a name.                                                                   *)

\* player 1 hits the mob at once; player 2 hits it 0.25 s later
ModeFeeds == {Feed(1, 3, "damage", 0), Feed(2, 3, "damage", 5)}
\* packets of the first zone server, towards a second one and of the login server,
\* 0.25 s apart
ModeRoutes == {Inbound, OutboundB, <<Login, Client>>}
\* late events: a hit of player 1 stamped with the first timestamp of the capture, a
\* heal of player 2 stamped now
LateFeeds == {Feed(1, 3, "damage", 0), Feed(2, 2, "heal", 1)}
\* <<entity_id, name>> the name registry learns while the meter runs
ModeNames == {<<1, "A">>, <<2, "A">>, <<1, str(2)>>}
\* history_limit=max(args.history, 1)
HistoryLimits == {1, HistoryLimit}

InitModes ==
    /\ names = NamesInit
    /\ party = PartyInit(TRUE)
    /\ \E mode \in Modes, limit \in HistoryLimits : meter = MeterInit(mode, limit)
    /\ pipe = PipeInit
    /\ trace = Did("init", NoId, FALSE)

M_push ==
    \E f \in ModeFeeds :
        \E event \in {CombatEvent(NextTimestamp(f.gap), f.source_id, f.target_id, f.kind, 1)} :
            /\ Fed(event.timestamp)
            /\ meter' = Meter_push(meter, event)
            /\ trace' = Did("push", event, ~meter.active /\ meter'.active)

M_observe_packet ==
    \E route \in ModeRoutes :
        \E pkt \in {RawPacket(NextTimestamp(5), route, 0)} :
            /\ Fed(pkt.timestamp)
            /\ meter' = Meter_observe_packet(meter, names, pkt)
            /\ trace' = Did("observe_packet", pkt, infer_zone_key(pkt) # meter.zone_key)

M_observe_combat_state ==
    \E in_active \in BOOLEAN :
        /\ Fed(NextTimestamp(0))
        /\ meter' = Meter_observe_combat_state(meter, 1, in_active, FALSE, NextTimestamp(0))
        /\ trace' = Did("observe_combat_state", <<1, in_active>>, 1 \in meter.seen_sources)

M_set_mode ==
    \E mode \in Modes :
        /\ Fed(NextTimestamp(0))
        /\ meter' = Meter_set_mode(meter, names, mode)
        /\ trace' = Did("set_mode", mode, mode # meter.mode)

M_toggle_manual ==
    \E r \in {Meter_toggle_manual(meter, names)} :
        /\ Fed(NextTimestamp(0))
        /\ meter' = r.meter
        /\ trace' = Did("toggle_manual", NoId, r.result)

M_end_session ==
    /\ Fed(NextTimestamp(0))
    /\ meter' = Meter_end_session_call(meter, names)
    /\ trace' = Did("end_session", meter.history[meter.mode], meter.active)

M_merge ==
    \E f \in LateFeeds :
        \E event \in {CombatEvent(IF f.gap = 0 THEN 1 ELSE NextTimestamp(0),
                                   f.source_id, f.target_id, f.kind, 1)} :
            \E r \in {Meter_merge_event_into_history(meter, names, event)} :
                /\ Fed(NextTimestamp(0))
                /\ meter' = r.meter
                /\ trace' = Did("merge", event, r.merged)

M_refresh ==
    /\ Fed(NextTimestamp(0))
    /\ meter' = Meter_refresh_history_labels(meter, names)
    /\ trace' = Did("refresh", NoId, RefreshChanged(meter, names))

\* the registry learns a name: "A" for player 1 or 2, or "2", a name made of digits,
\* for player 1
M_record ==
    \E learnt \in ModeNames :
        /\ pipe.pc = "recv"
        /\ pipe.n < MaxOps
        /\ pipe' = [pipe EXCEPT !.n = @ + 1]
        /\ names' = Names_record(names, learnt[1], learnt[2])
        /\ trace' = Did("record", learnt, names' # names)
        /\ UNCHANGED <<party, meter>>

M_finalize ==
    /\ pipe.pc = "recv"
    /\ meter' = Meter_finalize(meter, names)
    /\ pipe' = [pipe EXCEPT !.pc = "done"]
    /\ trace' = Did("finalize", NoId, meter.active)
    /\ UNCHANGED <<names, party>>

NextModes ==
    \/ M_push
    \/ M_observe_packet
    \/ M_observe_combat_state
    \/ M_set_mode
    \/ M_toggle_manual
    \/ M_end_session
    \/ M_merge
    \/ M_refresh
    \/ M_record
    \/ M_finalize

SpecModes == InitModes /\ [][NextModes]_vars

----------------------------------------------------------------------------
(* Claims on the modes and on the history *)

\* the limits history() is asked with; 0 stands for None
AskedLimits == 0 .. HistoryLimit + 1

\* history(limit) is the newest `limit` summaries of the selected mode, newest first
NewestFirst(limit) ==
    LET kept == meter.history[meter.mode]
        got == Meter_history(meter, limit)
    IN /\ Len(got) = IF limit = 0 \/ limit > Len(kept) THEN Len(kept) ELSE limit
       /\ \A i \in DOMAIN got : got[i] = kept[Len(kept) + 1 - i]

\* a step that archives puts the summary last and, in a full history, drops the first
ArchiveStep ==
    \A mode \in Modes :
        (trace'.op \notin {"merge", "refresh"} /\ meter'.history[mode] # meter.history[mode]) =>
            /\ mode = meter.mode
            /\ IF Len(meter.history[mode]) = meter.history_limit
               THEN meter'.history[mode] = Append(Tail(meter.history[mode]), NewSummary)
               ELSE meter'.history[mode] = Append(meter.history[mode], NewSummary)

\* C12: the history of every mode holds at most history_limit summaries, whatever the
\* limit; archiving into a full history evicts the oldest summary; history(limit)
\* returns the most recent summaries first.
C12_HistoryBounded ==
    /\ [](\A mode \in Modes : Len(meter.history[mode]) <= meter.history_limit)
    /\ [](\A limit \in AskedLimits : NewestFirst(limit))
    /\ [][ArchiveStep]_vars

\* C12 witness: end_session archived into a full history, which lost its oldest summary
C12_Witness ==
    /\ trace.op = "end_session"
    /\ Len(trace.arg) = meter.history_limit
    /\ meter.history[meter.mode] # trace.arg
    /\ Tail(trace.arg) = SubSeq(meter.history[meter.mode], 1, meter.history_limit - 1)

\* what observe_packet does to a meter in zone mode (see C16)
ZonePacketStep ==
    (trace'.op = "observe_packet" /\ meter.mode = "zone") =>
        LET zone_key == infer_zone_key(trace'.arg)
        IN IF zone_key # NoZone /\ meter.zone_key = NoZone
           THEN /\ meter'.active /\ meter'.session_start = trace'.arg.timestamp
                /\ meter'.history = meter.history
           ELSE IF zone_key # NoZone /\ zone_key # meter.zone_key
           THEN /\ meter'.active /\ meter'.session_start = trace'.arg.timestamp
                /\ meter'.totals = <<>>
                /\ IF meter.active /\ meter.totals # <<>>
                   THEN /\ ArchivedAs("zone_change")
                        /\ NewSummary.label = ZoneLabel(meter.zone_key)
                        /\ NewSummary.label # ZoneLabel(zone_key)
                        /\ NewSummary.end_ts = trace'.arg.timestamp
                   ELSE meter'.history = meter.history
           ELSE /\ meter'.active = meter.active
                /\ meter'.session_start = meter.session_start
                /\ meter'.totals = meter.totals
                /\ meter'.history = meter.history

C17_ManualOnlyAsStated ==
    [][/\ (meter.mode = "manual"
           /\ trace'.op \in {"push", "observe_packet", "observe_combat_state"}) =>
              /\ meter'.active = meter.active
              /\ meter'.history = meter.history
       /\ (meter.mode # "manual" /\ trace'.op = "toggle_manual") =>
              /\ meter' = meter
              /\ ~trace'.result]_vars

\* the fields of a summary that no operation rewrites
SameSession(a, b) ==
    /\ a.mode = b.mode /\ a.start_ts = b.start_ts /\ a.end_ts = b.end_ts
    /\ a.duration = b.duration /\ a.label = b.label /\ a.reason = b.reason
EntryLabels(summary) == {summary.entries[i].label : i \in DOMAIN summary.entries}

\* what a step may do to the retained summaries (see C18)
RetainedStep ==
    \A mode \in Modes :
        LET old == meter.history[mode]
            new == meter'.history[mode]
        IN IF trace'.op \notin {"merge", "refresh"}
           THEN \/ new = old
                \/ /\ new # <<>>
                   /\ SubSeq(new, 1, Len(new) - 1) \in {old, SubSeq(old, 2, Len(old))}
           ELSE /\ Len(new) = Len(old)
                /\ \A i \in DOMAIN old :
                       /\ SameSession(new[i], old[i])
                       /\ new[i] # old[i] =>
                              IF trace'.op = "merge"
                              THEN /\ Contains(old[i], trace'.arg.timestamp)
                                   /\ new[i].total_damage + new[i].total_heal =
                                          old[i].total_damage + old[i].total_heal
                                          + trace'.arg.amount
                              ELSE /\ new[i].total_damage = old[i].total_damage
                                   /\ new[i].total_heal = old[i].total_heal
                                   /\ \A label \in EntryLabels(new[i]) \ EntryLabels(old[i]) :
                                          \E id \in 0 .. 9 :
                                              /\ str(id) \in EntryLabels(old[i])
                                              /\ Names_lookup(names, id) = label

\* C18: an archived summary keeps its mode, start_ts, end_ts, duration, zone label and
\* close reason; its entries and totals change only by the merge of an event stamped
\* within [start_ts, end_ts] or by the refresh replacing numeric labels by resolved
\* names; no other operation alters a retained summary.
C18_SummariesFrozen == [][RetainedStep]_vars

\* C18 witness: a late heal was merged into a retained summary, whose pushed events
\* were all damage
C18_Witness ==
    /\ trace.op = "merge" /\ trace.result /\ trace.arg.kind = "heal"
    /\ \E i \in DOMAIN meter.history[meter.mode] :
           /\ Contains(meter.history[meter.mode][i], trace.arg.timestamp)
           /\ meter.history[meter.mode][i].total_heal = trace.arg.amount
           /\ meter.history[meter.mode][i].total_damage > 0

\* <<mode, index>> of the retained summaries whose [start_ts, end_ts] holds a timestamp
Holders(timestamp) ==
    {h \in Modes \X (1 .. HistoryLimit + 1) :
        /\ h[2] \in DOMAIN meter.history[h[1]]
        /\ Contains(meter.history[h[1]][h[2]], timestamp)}
\* <<mode, index>> of the retained summaries a step rewrote
Rewritten ==
    {h \in Modes \X (1 .. HistoryLimit + 1) :
        /\ h[2] \in DOMAIN meter.history[h[1]]
        /\ h[2] \in DOMAIN meter'.history[h[1]]
        /\ meter'.history[h[1]][h[2]] # meter.history[h[1]][h[2]]}
\* the (damage, heal) a summary holds under a label
Held(summary, label) == GroupedGet(GroupedOf(summary.entries, <<>>), label)

\* C19 as stated: merge_event_into_history(E) rewrites exactly one summary, the most
\* recent retained one whose [start_ts, end_ts] holds E.timestamp, adding E.amount to
\* the damage or heal of the entry of E's source (its name, or its id when unresolved),
\* and returns true; when no retained summary holds E.timestamp it returns false and
\* leaves the history as it was.
C19_MergeAsStated ==
    [][trace'.op = "merge" =>
          LET E == trace'.arg
              label == LabelOf(names, E.source_id)
          IN IF Holders(E.timestamp) = {}
             THEN ~trace'.result /\ meter'.history = meter.history
             ELSE /\ trace'.result
                  /\ \E h \in Holders(E.timestamp) :
                         /\ Rewritten = {h}
                         /\ \A g \in Holders(E.timestamp) : g[1] = h[1] => g[2] <= h[2]
                         /\ Held(meter'.history[h[1]][h[2]], label) =
                                LET cur == Held(meter.history[h[1]][h[2]], label)
                                IN IF E.kind = "damage"
                                   THEN <<cur[1] + E.amount, cur[2]>>
                                   ELSE <<cur[1], cur[2] + E.amount>>]_vars

\* C20 as stated: refresh_history_labels walks the retained summaries of every mode,
\* not only of the selected one: after it no summary holds a numeric label whose id
\* resolves to a name, entries of one label are merged, and the totals are kept.
C20_RefreshAllAsStated ==
    [][trace'.op = "refresh" =>
          \A mode \in Modes :
              \A i \in DOMAIN meter'.history[mode] :
                  LET summary == meter'.history[mode][i]
                  IN /\ \A label \in EntryLabels(summary) :
                            IsDigit(label) => Names_lookup(names, IntOf(label)) = NoName
                     /\ Cardinality(EntryLabels(summary)) = Len(summary.entries)
                     /\ summary.total_damage = meter.history[mode][i].total_damage
                     /\ summary.total_heal = meter.history[mode][i].total_heal]_vars

\* C21 as stated: with an unchanged name lookup a second refresh_history_labels leaves
\* every retained summary as the first call left it and returns false.
C21_RefreshIdempotent ==
    LET once == Meter_refresh_history_labels(meter, names)
    IN /\ Meter_refresh_history_labels(once, names) = once
       /\ ~RefreshChanged(once, names)

----------------------------------------------------------------------------
(* Claims on the PartyRegistry, continued *)

\* C22 as stated: PartyRegistry.observe_packet called with the packet of the call just
\* before it leaves the registry as that call left it.
C22_SamePacketTwice ==
    [][(/\ trace.op = "observe_packet" /\ trace'.op = "observe_packet"
        /\ pipe'.packet = pipe.packet) => party' = party]_vars

----------------------------------------------------------------------------
(* Claims on the end of the stream and on the snapshots *)

\* what the end of the stream does to the meter (see C23)
FinalizeStep ==
    trace'.op = "finalize" =>
        /\ ~meter'.active
        /\ Meter_snapshot(meter').totals = <<>>
        /\ trace'.arg.totals = <<>>
        /\ IF meter.active /\ meter.totals # <<>>
           THEN /\ meter'.history[meter.mode] # meter.history[meter.mode]
                /\ NewSummary.total_damage = SumOf(meter.totals, "damage")
                /\ NewSummary.start_ts = meter.session_start
           ELSE meter'.history = meter.history
        /\ ~meter.active => meter' = meter

\* C23: at the end of the stream finalize() closes the open session, archiving it when
\* it has entries: no session is active afterwards and a snapshot has empty totals;
\* the pipeline then yields one final snapshot and nothing more; on a meter without
\* an active session finalize() changes nothing.
C23_FinalizeCloses ==
    /\ [][FinalizeStep]_vars
    /\ [](pipe.pc = "done" => (trace.op = "finalize" /\ ~meter.active))
    /\ [][pipe.pc = "done" => UNCHANGED vars]_vars

\* C23 witness: the stream ended on an open session, now archived with reason stream_end
C23_Witness ==
    /\ pipe.pc = "done" /\ trace.op = "finalize" /\ trace.result
    /\ meter.history["battle"] # <<>>
    /\ meter.history["battle"][Len(meter.history["battle"])].reason = "stream_end"
    /\ trace.arg.totals = <<>>

\* C24 as stated: the end of the stream flushes the pending lists once more, so that no
\* event and no combat state is held when the stream has ended.
C24_DrainedAsStated ==
    pipe.pc = "done" => (pipe.pending_events = <<>> /\ pipe.pending_combat_states = <<>>)

\* C24 amended: the end of the stream leaves the pending lists and the registries as
\* they are and delivers nothing; what is still held then is nothing the gate allows,
\* so a further flush would have delivered nothing.
C24_HeldNotAllowed ==
    /\ [][trace'.op = "finalize" =>
             /\ pipe'.pending_events = pipe.pending_events
             /\ pipe'.pending_combat_states = pipe.pending_combat_states
             /\ party' = party /\ names' = names]_vars
    /\ [](pipe.pc = "done" =>
             /\ \A i \in DOMAIN pipe.pending_events :
                    ~Party_allows(party, names, pipe.pending_events[i].source_id)
             /\ \A i \in DOMAIN pipe.pending_combat_states :
                    ~Party_allows(party, names, pipe.pending_combat_states[i].entity_id))

\* C24 witness: the stream has ended with an event and a combat state still held
C24_Witness ==
    /\ pipe.pc = "done"
    /\ pipe.pending_events # <<>>
    /\ pipe.pending_combat_states # <<>>

\* what the end of a packet's processing yields (see C25)
EmitStep ==
    /\ pipe.pc = "end" =>
           /\ trace'.op = "emit" <=>
                  \/ pipe.last_emit = NoTs
                  \/ pipe.snapshot_interval <= 0
                  \/ pipe.packet.timestamp - pipe.last_emit >= pipe.snapshot_interval
           /\ trace'.op \in {"emit", "end"}
    /\ trace'.op = "emit" =>
           /\ pipe.pc = "end"
           /\ trace'.arg.timestamp = pipe.packet.timestamp
           /\ pipe'.last_emit = trace'.arg.timestamp
    /\ trace'.op # "emit" => pipe'.last_emit = pipe.last_emit
    /\ pipe'.pc = "done" =>
           /\ trace'.op = "finalize"
           /\ trace'.arg.timestamp = OrTs(pipe.last_timestamp, 0)

\* C25: a snapshot is yielded for the first packet and for every later packet stamped
\* snapshot_interval or more after the last snapshot (for every packet when the
\* interval is 0 or less), stamped with the packet's timestamp, so that after each
\* packet the last snapshot is less than an interval old; one more is yielded when
\* the stream ends.
C25_SnapshotCadence ==
    /\ [][EmitStep]_vars
    /\ [](pipe.pc = "recv" /\ pipe.n > 0 =>
             /\ pipe.last_emit # NoTs
             /\ IF pipe.snapshot_interval <= 0 THEN pipe.last_emit = pipe.last_timestamp
                ELSE pipe.last_timestamp - pipe.last_emit < pipe.snapshot_interval)

\* C25 witness: a later packet, an interval after the last snapshot, yields a snapshot
C25_Witness ==
    /\ trace.op = "emit" /\ pipe.n >= 2
    /\ pipe.snapshot_interval > 0
    /\ trace.arg.timestamp > 1

----------------------------------------------------------------------------
(* SpecChannel: the snapshot producer thread of the GUI runners, the queue,  *)
(* and the front end that drains it on a timer.  pipe holds the channel:     *)
(* the producer's position (ppc), the snapshot in its hand, the queue, the   *)
(* stop flag, everything put so far (sent), the front end (ui, app), the     *)
(* position of the drain callback (dpc) and the snapshots it processed       *)
(* (taken).  A snapshot is its number in the stream; NoId stands for None.   *)

MaxSnapshots == 3

ChannelInit(ui) ==
    [ppc |-> "next", item |-> NoId, yielded |-> 0, queue |-> <<>>, stop |-> FALSE,
     sent |-> <<>>, ui |-> ui, app |-> "running", dpc |-> "idle", taken |-> <<>>,
     got_none |-> FALSE]

InitChannel ==
    /\ names = NamesInit
    /\ party = <<>>
    /\ meter = <<>>
    /\ \E ui \in {"qt", "textual"} : pipe = ChannelInit(ui)
    /\ trace = Did("init", NoId, FALSE)

Channel(op, arg, result) ==
    /\ trace' = Did(op, arg, result)
    /\ UNCHANGED <<names, party, meter>>

\* for snapshot in snapshots: the stream yields its next snapshot
C_yield ==
    /\ pipe.ppc = "next"
    /\ pipe.yielded < MaxSnapshots
    /\ pipe' = [pipe EXCEPT !.ppc = "check", !.item = pipe.yielded + 1, !.yielded = @ + 1]
    /\ Channel("yield", pipe.yielded + 1, FALSE)

\* the stream ends (raised = FALSE) or raises (raised = TRUE): on to the finally clause
C_end ==
    \E raised \in BOOLEAN :
        /\ pipe.ppc = "next"
        /\ pipe' = [pipe EXCEPT !.ppc = "finally"]
        /\ Channel("end", NoId, raised)

\* if stop_event.is_set(): break
C_check ==
    /\ pipe.ppc = "check"
    /\ pipe' = [pipe EXCEPT !.ppc = IF pipe.stop THEN "finally" ELSE "put"]
    /\ Channel("check", pipe.item, pipe.stop)

\* snapshot_queue.put(snapshot)
C_put ==
    /\ pipe.ppc = "put"
    /\ pipe' = [pipe EXCEPT !.ppc = "next", !.queue = Append(@, pipe.item),
                            !.sent = Append(@, pipe.item)]
    /\ Channel("put", pipe.item, FALSE)

\* the producer without its finally clause: it ends and puts nothing
C_finally_Unsent ==
    /\ pipe.ppc = "finally"
    /\ pipe' = [pipe EXCEPT !.ppc = "done"]
    /\ Channel("put", NoId, TRUE)

\* finally: snapshot_queue.put(None)
C_finally ==
    /\ pipe.ppc = "finally"
    /\ pipe' = [pipe EXCEPT !.ppc = "done", !.queue = Append(@, NoId),
                            !.sent = Append(@, NoId)]
    /\ Channel("put", NoId, TRUE)

\* the timer fires: the drain callback starts
D_tick ==
    /\ pipe.app = "running" /\ pipe.dpc = "idle"
    /\ pipe' = [pipe EXCEPT !.dpc = "loop"]
    /\ Channel("tick", NoId, FALSE)

\* one turn of the drain loop: get_nowait()
D_get ==
    /\ pipe.dpc = "loop"
    /\ IF pipe.queue = <<>>
       THEN /\ pipe' = [pipe EXCEPT !.dpc = "idle"]
            /\ Channel("empty", NoId, FALSE)
       ELSE IF Head(pipe.queue) = NoId
       THEN \* Qt: stop_event.set(); return.  Textual: self.exit(); return, and
            \* _run_textual_app sets the stop flag once app.run() is over
            /\ pipe' = [pipe EXCEPT !.queue = Tail(@), !.dpc = "idle", !.stop = TRUE,
                                    !.got_none = TRUE,
                                    !.app = IF pipe.ui = "textual" THEN "exited" ELSE @]
            /\ Channel("get", NoId, TRUE)
       ELSE /\ pipe' = [pipe EXCEPT !.queue = Tail(@), !.taken = Append(@, Head(pipe.queue))]
            /\ Channel("get", Head(pipe.queue), FALSE)

\* the user quits the front end: app.run() / app.exec() is over, the stop flag is set
D_quit ==
    /\ pipe.app = "running" /\ pipe.dpc = "idle"
    /\ pipe' = [pipe EXCEPT !.app = "exited", !.stop = TRUE]
    /\ Channel("quit", NoId, FALSE)

NextChannel ==
    \/ C_yield
    \/ C_end
    \/ C_check
    \/ C_put
    \/ C_finally
    \/ D_tick
    \/ D_get
    \/ D_quit

SpecChannel == InitChannel /\ [][NextChannel]_vars

\* the snapshots among the items of a sequence
Snapshots(items) == SelectSeq(items, LAMBDA x : x # NoId)

\* C26: the producer puts exactly one None and puts it last, however the stream ends;
\* a front end that gets None processes no snapshot afterwards, and by then it has
\* got every snapshot put before the None, in the order they were put.
C26_SentinelLast ==
    /\ [](/\ \A i \in DOMAIN pipe.sent : pipe.sent[i] = NoId <=> (pipe.ppc = "done" /\ i = Len(pipe.sent))
          /\ pipe.ppc = "done" => (pipe.sent # <<>> /\ pipe.sent[Len(pipe.sent)] = NoId)
          /\ Snapshots(pipe.sent) = [i \in 1 .. Len(Snapshots(pipe.sent)) |-> i]
          /\ Len(pipe.taken) <= Len(Snapshots(pipe.sent))
          /\ pipe.taken = SubSeq(Snapshots(pipe.sent), 1, Len(pipe.taken))
          /\ pipe.got_none => (pipe.stop /\ pipe.queue = <<>>
                               /\ pipe.taken = Snapshots(pipe.sent))
          /\ (pipe.got_none /\ pipe.ui = "textual") => pipe.app = "exited")
    /\ [][/\ pipe.ppc = "done" => pipe'.sent = pipe.sent
          /\ pipe.got_none => pipe'.taken = pipe.taken]_vars

\* C26 witness: the stream raised after two snapshots and the front end has got both,
\* then the None
C26_Witness ==
    /\ pipe.got_none
    /\ pipe.taken = <<1, 2>>
    /\ pipe.sent = <<1, 2, NoId>>

----------------------------------------------------------------------------
(* SpecGui: the pipeline inside the snapshot producer thread of a GUI runner, *)
(* and the front-end thread, whose mode keys call meter.set_mode directly.   *)
(* Nothing orders the two threads, so the call is enabled at every position  *)
(* of the pipeline.                                                          *)

\* _build_runtime, then live_snapshots / replay_snapshots with snapshot_interval=1.0
InitGui ==
    /\ names = NamesInit
    /\ \E seeded \in BOOLEAN :
           party = IF seeded THEN Party_seed_self_ids(PartyInit(TRUE), <<1>>)
                   ELSE PartyInit(TRUE)
    /\ meter = MeterInit("battle", HistoryLimit)
    /\ pipe = PipeInit
    /\ trace = [op |-> "init", arg |-> NoId, result |-> FALSE, members |-> Members(party)]

\* action_mode_zone / action_mode_manual / UiState.setMode on the front-end thread:
\* self._set_mode(mode) is SessionMeter.set_mode; the keys are pressed while the
\* meter is in its starting mode
G_set_mode ==
    \E mode \in Modes \ {"battle"} :
        /\ meter.mode = "battle"
        /\ meter' = Meter_set_mode(meter, names, mode)
        /\ trace' = Saw("set_mode", mode, meter.active, party)
        /\ UNCHANGED <<names, party, pipe>>

NextGui ==
    \/ Next
    \/ G_set_mode

SpecGui == InitGui /\ [][NextGui]_vars

\* C27 as stated: set_mode never runs between two steps of the pipeline's processing
\* of one packet; it runs only while the pipeline waits for a packet or after the
\* stream is over.
C27_OnPipelineThreadAsStated ==
    [][trace'.op = "set_mode" => pipe.pc \in {"recv", "done"}]_vars

----------------------------------------------------------------------------
(* Claims on the NameRegistry, continued                                     *)

\* the ids bound to a name only weakly
OnlyWeak(n, name) == Get(n.weak_name_ids, name, {}) \ Get(n.strong_name_ids, name, {})

\* C28: a strong binding wins over a weak one.  (a) A weak store of (id, name) while id
\* holds a strong binding to another name changes nothing, lookup(id) included.  (b) A
\* strong store of (id, name) leaves no other id that was only weakly bound to the name
\* resolving to it in the id -> name map; and at all times an id that the map resolves
\* to a name with strong holders is one of those holders.
C28_StrongBeatsWeak ==
    /\ [][/\ (/\ trace'.op = "record_weak"
              /\ Get(names.strong_id_names, trace'.arg[1], NoName) \notin {NoName, trace'.arg[2]})
             => (/\ names' = names
                 /\ Names_lookup(names', trace'.arg[1]) = Names_lookup(names, trace'.arg[1]))
          /\ trace'.op = "record"
             => \A w \in OnlyWeak(names, trace'.arg[2]) \ {trace'.arg[1]} :
                    Get(names'.names, w, NoName) # trace'.arg[2]]_vars
    /\ [](\A w \in DOMAIN names.names :
              Get(names.strong_name_ids, names.names[w], {}) # {}
                  => w \in names.strong_name_ids[names.names[w]])

\* C28 witness: id 1 holds "A" strongly and id 2 holds "B" strongly; the last step was a
\* weak store of (2, "A"), which was discarded
C28_Witness ==
    /\ trace.op = "record_weak" /\ trace.arg = <<2, "A">> /\ trace.result
    /\ Get(names.strong_id_names, 2, NoName) = "B"
    /\ Get(names.strong_id_names, 1, NoName) = "A"
    /\ Names_lookup(names, 2) = "B"

----------------------------------------------------------------------------
(* SpecSelf: the pipeline started with --self-name and --self-id, as         *)
(* _build_runtime does, on streams that also carry unit infos naming the     *)
(* self name.                                                                *)

SelfKinds ==
    PacketKinds \cup {Packet(Inbound, 0, <<UnitInfo(2, "A")>>),
                      Packet(Inbound, 0, <<UnitInfo(1, "A")>>),
                      Packet(Inbound, 0, <<SelfName("A")>>)}

\* if args.self_name: party.set_self_name(args.self_name, confirmed=True)
\* if args.self_id is not None: party.seed_self_ids([args.self_id])
InitSelf ==
    /\ names = NamesInit
    /\ \E named \in BOOLEAN, seeded \in BOOLEAN :
           \E p \in {IF named THEN Party_set_self_name(PartyInit(TRUE), "A", TRUE)
                      ELSE PartyInit(TRUE)} :
               party = IF seeded THEN Party_seed_self_ids(p, <<1>>) ELSE p
    /\ meter = MeterInit("battle", HistoryLimit)
    /\ pipe = PipeInit
    /\ trace = [op |-> "init", arg |-> NoId, result |-> FALSE, members |-> Members(party)]

U_recv == \E kind \in SelfKinds : Recv(kind)

NextSelf ==
    \/ U_recv
    \/ S_messages
    \/ S_flush_event
    \/ S_flush_states
    \/ S_event
    \/ S_states
    \/ S_end
    \/ S_finalize

SpecSelf == InitSelf /\ [][NextSelf]_vars

\* the labels of the retained summaries of the mode in use
CurrentLabels(m) ==
    UNION {EntryLabels(m.history[m.mode][j]) : j \in DOMAIN m.history[m.mode]}

Outranked(n, id, name) ==
    /\ Get(n.strong_name_ids, name, {}) # {}
    /\ id \notin Get(n.strong_name_ids, name, {})

----------------------------------------------------------------------------
(* Claims on the roster candidates of the PartyRegistry                      *)

\* the held roster candidates that are self ids
SelfCandidates(p) == p.party_roster_candidates \cap p.self_ids

\* C30: roster candidates are held back until one of them is a self id.  A message
\* adds nothing to party_ids, and a packet, a seeded self id or an accepted self id
\* adds no candidate to it, while no candidate is a self id; the registry marks the
\* roster as holding the player only when a candidate is a self id; and as soon as one
\* is, every candidate is in party_ids.
C30_RosterHeld ==
    /\ [][/\ (trace'.op = "observe" /\ SelfCandidates(party') = {})
                => party'.party_ids \subseteq party.party_ids
          /\ (/\ trace'.op \in {"observe", "observe_packet", "seed_self_ids",
                                "try_resolve_self_id", "allows"}
              /\ SelfCandidates(party') = {})
                => (party'.party_ids \ party.party_ids) \cap party'.party_roster_candidates = {}]_vars
    /\ [](/\ party.party_roster_self_seen => SelfCandidates(party) # {}
          /\ SelfCandidates(party) # {} => party.party_roster_candidates \subseteq party.party_ids)

\* C30 witness: ids 1 and 2 were held as roster candidates, then id 1 was seeded as a
\* self id, and both are party ids
C30_Witness ==
    /\ trace.op = "seed_self_ids" /\ trace.arg = 1
    /\ party.party_roster_candidates = {1, 2}
    /\ party.self_ids = {1}
    /\ party.party_ids = {1, 2}

\* C31 as stated: once a disband has been observed the registry holds no roster name
\* and no party id that is not a self id.
C31_DisbandClearsAsStated ==
    (trace.op = "observe" /\ trace.result) =>
        /\ party.party_names = {}
        /\ party.party_ids \subseteq party.self_ids

----------------------------------------------------------------------------
(* SpecFirst: the pipeline over the same streams, started with an empty      *)
(* strict registry: PartyRegistry() and nothing seeded.                      *)

InitFirst ==
    /\ names = NamesInit
    /\ party = PartyInit(TRUE)
    /\ meter = MeterInit("battle", HistoryLimit)
    /\ pipe = PipeInit
    /\ trace = [op |-> "init", arg |-> NoId, result |-> FALSE, members |-> {}]

SpecFirst == InitFirst /\ [][NextSelf]_vars

\* the event loop is about to handle an event whose target was requested, that comes
\* within the correlation window of an outgoing packet, while the registry has no self
\* id and no candidate other than the event's source has a score
FirstHit ==
    /\ pipe.pc = "events" /\ pipe.events # <<>>
    /\ party.strict /\ ~Party_has_ids(party)
    /\ Head(pipe.events).target_id \in DOMAIN party.target_request_ts
    /\ has_outbound_correlation(party.recent_outbound_ts, Head(pipe.events).timestamp)
    /\ DOMAIN party.self_candidate_scores \subseteq {Head(pipe.events).source_id}

\* the event at the head of the event loop is accepted and pushed
FirstHitPushed ==
    /\ party'.primary_self_id = Head(pipe.events).source_id
    /\ trace'.op = "push"
    /\ pipe'.pending_events = pipe.pending_events
    /\ Head(pipe.events).source_id \in Keys(Meter_snapshot(meter').totals)
    /\ GroupedGet(Meter_snapshot(meter').totals, Head(pipe.events).source_id)[1]
           >= Head(pipe.events).amount

\* C32 as stated: such an event makes its source the primary self id while it is
\* handled and is pushed into the live session: it is neither dropped nor held.
C32_FirstHitAsStated ==
    [][FirstHit => FirstHitPushed]_vars

----------------------------------------------------------------------------
(* Claims on the pending lists of the pipeline, continued                    *)

\* the first `count` items of a list: the ones queued first
Oldest(items, count) == IF Len(items) > count THEN SubSeq(items, 1, count) ELSE items

\* C33 as stated: a flush at packet time now leaves of the pending events those not
\* older than now - 120 s, and of these, when more than the cap remain, the ones queued
\* first: the most recently queued are the ones discarded.
C33_TrimNewestAsStated ==
    [][(trace'.op \in {"messages", "states"} /\ pipe.pending_events # <<>>) =>
           pipe'.pending_events =
               Oldest(KeepFrom(pipe.pending_events, pipe.packet.timestamp - PENDING_MAX_AGE),
                      PENDING_MAX_COUNT)]_vars

\* damage and heal the meter holds, live and in the summaries of every mode
AllDamage(m) ==
    SumOf(m.totals, "damage") + SumOf(m.history["battle"], "total_damage")
        + SumOf(m.history["zone"], "total_damage") + SumOf(m.history["manual"], "total_damage")
AllHeal(m) ==
    SumOf(m.totals, "heal") + SumOf(m.history["battle"], "total_heal")
        + SumOf(m.history["zone"], "total_heal") + SumOf(m.history["manual"], "total_heal")

\* one turn of the release loop of a flush
FlushEventStep ==
    LET item == Head(pipe.todo)
    IN IF allow_event(party, names, item)
       THEN /\ trace'.op \in {"merge", "push"}
            /\ pipe'.remaining = pipe.remaining
            /\ AllDamage(meter') + AllHeal(meter') = AllDamage(meter) + AllHeal(meter) + item.amount
            /\ trace'.op = "push" => item.source_id \in Keys(meter'.totals)
       ELSE /\ meter' = meter
            /\ trace'.op \in {"retain", "drop"}

\* the end of a flush: what stays pending
FlushEndStep ==
    /\ pipe.pending_events # <<>> =>
           /\ pipe'.pending_events = pipe.remaining
           /\ \A k \in DOMAIN pipe'.pending_events :
                  ~allow_event(party', names, pipe'.pending_events[k])
           /\ \E pick \in SUBSET DOMAIN pipe.pending_events :
                  pipe'.pending_events =
                      SelectSeq(pipe.pending_events,
                                LAMBDA e : \E k \in pick : pipe.pending_events[k] = e)
    /\ \A k \in DOMAIN pipe'.pending_combat_states :
           ~allow_combat_state(party', names, pipe'.pending_combat_states[k].entity_id)
    /\ trace'.result =>
           \E k \in DOMAIN pipe.pending_combat_states :
               allow_combat_state(party, names, pipe.pending_combat_states[k].entity_id)

\* C34: in a flush every pending event whose source the gate allows is delivered once,
\* merged into a summary or pushed, and leaves the pending list; an event the gate
\* refuses leaves the meter as it is; what is pending after the flush, events and
\* combat states, is refused by the gate, and the meter changes at the end of the flush
\* only when a pending combat state was allowed.
C34_FlushDelivers ==
    [][/\ (pipe.pc \in {"flush1", "flush2"} /\ pipe.todo # <<>>) => FlushEventStep
       /\ (pipe.pc \in {"flush1", "flush2"} /\ pipe.todo = <<>>) => FlushEndStep]_vars

\* C34 witness: a flush has pushed a held event of a source that is now a member, and
\* an event of another source is still held
C34_Witness ==
    /\ pipe.pc \in {"flush1", "flush2"}
    /\ trace.op = "push" /\ trace.arg \in Members(party)
    /\ trace.arg \in Keys(meter.totals)
    /\ \E k \in DOMAIN pipe.remaining : pipe.remaining[k].source_id # trace.arg

----------------------------------------------------------------------------
(* Claims on the runs of the pipeline                                        *)

\* what a run shows of the meter: the totals of a snapshot and the retained summaries
Shown(m) == <<Meter_snapshot(m).totals, m.history>>

----------------------------------------------------------------------------
(* Claims on the NameRegistry: snapshot, lookup and the reverse index        *)

\* C36: snapshot() and lookup agree on every id: the snapshot maps an id to the name
\* lookup gives and has no entry for an id lookup does not resolve; for an id with a
\* direct binding both give that binding, whatever its guid resolves to.
C36_SnapshotIsLookup ==
    \A id \in {1, 2, 3} :
        /\ Names_lookup(names, id) # NoName =>
               (id \in DOMAIN Names_snapshot(names) /\ Names_snapshot(names)[id] = Names_lookup(names, id))
        /\ Names_lookup(names, id) = NoName => id \notin DOMAIN Names_snapshot(names)
        /\ id \in DOMAIN names.names =>
               (Names_lookup(names, id) = names.names[id] /\ Names_snapshot(names)[id] = names.names[id])

\* C36 witness: id 1 is bound to A directly while its guid resolves to B, and id 2
\* resolves through its guid only
C36_Witness ==
    /\ Get(names.names, 1, NoName) = "A"
    /\ 1 \in DOMAIN names.id_guids /\ Get(names.guid_names, names.id_guids[1], NoName) = "B"
    /\ Names_lookup(names, 1) = "A"
    /\ 2 \notin DOMAIN names.names /\ Names_lookup(names, 2) = "B"

\* C39: the reverse index agrees with the forward maps after any sequence of stores.
\* An id is in the strong id set of a name exactly when that name is the id's current
\* strong name, and every id that has a strong name resolves through lookup to it.
C39_ReverseIndexAsStated ==
    /\ \A nm \in DOMAIN names.strong_name_ids :
           \A id \in names.strong_name_ids[nm] :
               Get(names.strong_id_names, id, NoName) = nm
    /\ \A id \in DOMAIN names.strong_id_names :
           id \in Get(names.strong_name_ids, names.strong_id_names[id], {})
    /\ \A id \in DOMAIN names.strong_id_names :
           Names_lookup(names, id) = names.strong_id_names[id]

----------------------------------------------------------------------------
(* Claims on what the SessionMeter keeps of the events it accepted *)

\* damage and heal of the live session
Live(m) == SumOf(m.totals, "damage") + SumOf(m.totals, "heal")

\* the step from m to m2 closed the live session into a summary of mode k: the summary
\* holds the live damage and heal and was appended to the deque of the mode, which
\* drops its oldest summary when it is full
ArchivedIn(m, m2, k) ==
    /\ m2.history[k] # <<>>
    /\ m2.history[k] = DequeAppendMax(m.history[k], m2.history[k][Len(m2.history[k])],
                                      m.history_limit)
    /\ m2.history[k][Len(m2.history[k])].total_damage = SumOf(m.totals, "damage")
    /\ m2.history[k][Len(m2.history[k])].total_heal = SumOf(m.totals, "heal")
    /\ \A other \in Modes \ {k} : m2.history[other] = m.history[other]
Archived(m, m2) == \E k \in Modes : ArchivedIn(m, m2, k)

\* push takes the event: the mode is not manual, or the toggle is on
Accepted(m) == ~(m.mode = "manual" /\ ~m.manual_active)

\* C37: no accepted event is silently discarded. An accepted push adds its amount to
\* what the meter holds, and no call of push, observe_packet, observe_combat_state,
\* set_mode, toggle_manual, end_session or finalize takes anything away from the live
\* totals and the archived summaries together, except the summary the history limit
\* evicts: the live totals stay, or they are closed into a summary. A session is never
\* started over live totals that were not archived.
C37_NothingDiscardedAsStated ==
    [][/\ (trace'.op = "push" /\ Accepted(meter)) =>
              /\ Live(meter') = Live(meter) + trace'.arg.amount
              /\ meter'.history = meter.history
       /\ trace'.op \in {"observe_packet", "observe_combat_state", "set_mode",
                         "toggle_manual", "end_session", "finalize"} =>
              \/ meter'.history = meter.history /\ Live(meter') >= Live(meter)
              \/ Archived(meter, meter')]_vars

----------------------------------------------------------------------------
(* Claims on the self ids of the PartyRegistry *)

\* C38: after any sequence of PartyRegistry operations every self id is a party id,
\* and a primary self id is set exactly when there is a self id, and then it is one
\* of the self ids.
C38_SelfIdsConsistent ==
    /\ party.self_ids \subseteq party.party_ids
    /\ (party.primary_self_id # NoId) <=> (party.self_ids # {})
    /\ party.self_ids # {} => party.primary_self_id \in party.self_ids

\* the acceptance rule has just named the self id of a registry that holds a roster name
C38_Witness ==
    /\ trace.op = "try_resolve_self_id"
    /\ trace.result
    /\ party.party_names # {}
    /\ party.self_ids = {party.primary_self_id}

----------------------------------------------------------------------------
(* Claims on the shape of the retained summaries *)

WellFormed(summary) ==
    /\ summary.entries # <<>>
    /\ \A i, j \in DOMAIN summary.entries :
           i # j => summary.entries[i].label # summary.entries[j].label
    /\ \A i, j \in DOMAIN summary.entries :
           i < j => summary.entries[i].damage >= summary.entries[j].damage
    /\ summary.total_damage = SumOf(summary.entries, "damage")
    /\ summary.total_heal = SumOf(summary.entries, "heal")
    /\ summary.start_ts <= summary.end_ts
    /\ summary.duration = summary.end_ts - summary.start_ts
    /\ summary.duration >= 0

\* the retained summaries of every mode
Retained(m) == UNION {Range(m.history[k]) : k \in Modes}

\* C40: after any sequence of closes, merge-backs and label refreshes every retained
\* summary has at least one entry, at most one entry per label, its entries ordered by
\* damage descending, totals equal to the sums over its entries, and start_ts <= end_ts
\* with duration = end_ts - start_ts >= 0; refresh_history_labels leaves the totals of
\* each summary as they were, and merge_event_into_history raises exactly one of the
\* two totals of the summary it rewrites by the amount of the event.
C40_SummariesWellFormed ==
    [][/\ \A summary \in Retained(meter') : WellFormed(summary)
       /\ trace'.op = "refresh" =>
              /\ DOMAIN meter'.history[meter.mode] = DOMAIN meter.history[meter.mode]
              /\ \A i \in DOMAIN meter.history[meter.mode] :
                     /\ meter'.history[meter.mode][i].total_damage
                            = meter.history[meter.mode][i].total_damage
                     /\ meter'.history[meter.mode][i].total_heal
                            = meter.history[meter.mode][i].total_heal
       /\ (trace'.op = "merge" /\ trace'.result) =>
              \E i \in DOMAIN meter.history[meter.mode] :
                  LET old == meter.history[meter.mode][i]
                      new == meter'.history[meter.mode][i]
                  IN /\ \/ /\ new.total_damage = old.total_damage + trace'.arg.amount
                           /\ new.total_heal = old.total_heal
                        \/ /\ new.total_heal = old.total_heal + trace'.arg.amount
                           /\ new.total_damage = old.total_damage
                     /\ \A j \in DOMAIN meter.history[meter.mode] \ {i} :
                            meter'.history[meter.mode][j] = meter.history[meter.mode][j]]_vars

\* an event was merged back into a summary that holds two entries, the larger first
C40_Witness ==
    /\ trace.op = "merge"
    /\ trace.result
    /\ \E summary \in Retained(meter) :
           /\ Len(summary.entries) = 2
           /\ summary.entries[1].damage > summary.entries[2].damage
           /\ summary.start_ts < summary.end_ts

====
